---- MODULE Spec2Model ----
(***************************************************************************)
(* Model of the WiFi manager of the Chimera Red firmware                   *)
(* (chimera_red/firmware/main/wifi_manager.c): the 802.11 address          *)
(* extractor, the EAPOL Message-1/Message-2 correlation over the handshake *)
(* cache, and the radio-mode operations (scan, sniffer start/stop, channel *)
(* hopper, deauthentication burst).                                        *)
(*                                                                         *)
(* Frames are byte sequences; C's payload[k] is payload[k + 1] here.       *)
(***************************************************************************)
EXTENDS Integers, Sequences, FiniteSets, TLC

VARIABLES
  \* ---- EAPOL state machine (process_eapol / promisc_rx_cb) ----
  g_handshake_cache,   \* handshake_cache_entry_t[HANDSHAKE_CACHE_SIZE]
  g_m1_count,          \* atomic counters
  g_m2_count,
  g_complete_count,
  g_pkt_count,
  now,                 \* get_timestamp_ms()
  hs_emitted,          \* history: number of g_handshake_cb invocations
  last_hs,             \* history: the wifi_handshake_t handed to the callback last
  last_op,             \* history: the last frame or clear handled
  done_pairs,          \* history: pairs completed with no Message-1 since
  n_clears,            \* history: calls of wifi_clear_handshake_cache
  rx_bad,              \* history: the last frame received, if it was a damaged one
  \* ---- address extractor on its own ----
  ax_frame,            \* the synthetic 802.11 header under test
  ax_out,              \* the pointers extract_data_frame_addrs returned
  \* ---- radio-mode operations ----
  g_promiscuous_active,
  g_channel_hopping,
  g_hopper_running,
  g_current_channel,
  g_hop_index,
  g_hopper_task,       \* TaskHandle_t: 0 is NULL
  g_wifi_mutex,        \* 0 when free, else the context holding it
  g_deauth_seq,
  drv,                 \* the WiFi driver: mode, started, promiscuous, channel, AP MAC
  hopper,              \* position of each channel_hopper_task
  ctx,                 \* position and locals of each calling context
  aborted,             \* abort() was called (ESP_ERROR_CHECK)
  n_ops,               \* operations started
  n_faults,            \* driver calls that returned an error
  n_hops,              \* channel changes made by hopper tasks
  tx_frame,            \* history: the frame handed to esp_wifi_80211_tx last
  tx_count,            \* history: frames handed to esp_wifi_80211_tx
  stop_done,           \* history: a caller has finished stopping the hopper
                       \* and hopping has not been started since
  \* ---- management frames ----
  g_recon_mode,
  mgmt_out,            \* history: the client_probe or recon event sent last
  n_mgmt_out,          \* history: client_probe and recon events sent
  deauth_result,       \* history: the deauth_result event of the last command
  \* ---- the receive callback, frame by frame ----
  rx_in,               \* history: the frame handed to the callback last, if recorded
  g_sniffer_cb,        \* TRUE when a raw sniffer callback is registered
  g_cache_mutex,       \* "free", or its holder: "rx" or "clear"
  cb,                  \* position and locals of promisc_rx_cb / process_eapol
  clr,                 \* position of wifi_clear_handshake_cache in its caller
  fwd_out,             \* history: the frame g_sniffer_cb got last
  n_fwd,               \* history: calls of g_sniffer_cb
  n_eapol,             \* history: calls of process_eapol
  \* ---- the hop cycle ----
  hop_log              \* history: the channels of the last hops, when recorded

evars == <<g_handshake_cache, g_m1_count, g_m2_count, g_complete_count,
           g_pkt_count, now, hs_emitted, last_hs, last_op, done_pairs,
           n_clears, rx_bad>>
avars == <<ax_frame, ax_out>>
rvars == <<g_promiscuous_active, g_channel_hopping, g_hopper_running,
           g_current_channel, g_hop_index, g_hopper_task, g_wifi_mutex,
           g_deauth_seq, drv, hopper, ctx, aborted, n_ops, n_faults, n_hops>>
tvars == <<tx_frame, tx_count, stop_done>>
mvars == <<g_recon_mode, mgmt_out, n_mgmt_out, deauth_result>>
kvars == <<rx_in, g_sniffer_cb, g_cache_mutex, cb, clr, fwd_out, n_fwd, n_eapol>>
hvars == <<hop_log>>
vars == <<evars, avars, rvars, tvars, mvars, kvars, hvars>>

(***************************************************************************)
(* Program constants                                                       *)
(***************************************************************************)
HANDSHAKE_CACHE_SIZE == 16
CACHE_TIMEOUT_MS == 10000
\* uint32_t oldest_time = UINT32_MAX: the largest integer TLC represents stands
\* in for it; every timestamp of the model is far below both
OLDEST_TIME_INIT == 2147483647
MAX_EAPOL_FRAME_SIZE == 256
EAPOL_KEY_DESC_TYPE_OFFSET == 0
EAPOL_KEY_INFO_OFFSET == 1
EAPOL_KEY_REPLAY_OFFSET == 5
EAPOL_KEY_NONCE_OFFSET == 13
EAPOL_KEY_MIC_OFFSET == 77
EAPOL_KEY_MIN_LEN == 95
LLC_SNAP_EAPOL == <<170, 170, 3, 0, 0, 0, 136, 142>>

(***************************************************************************)
(* Bounds of the model                                                     *)
(***************************************************************************)
MaxFrames == 4       \* frames delivered to the receive callback
MaxTicks == 3        \* clock advances, each of half the cache timeout
MaxClears == 1       \* calls of wifi_clear_handshake_cache

Aps == {1}           \* access points on the air
Stas == {1, 2}       \* stations on the air (two, so a pair can differ
                     \* from another in the station alone)

TickMs == CACHE_TIMEOUT_MS \div 2

(***************************************************************************)
(* Bytes and pointers                                                      *)
(***************************************************************************)
Rep(b, n) == [i \in 1..n |-> b]

\* memcmp/memcpy source: n bytes at C offset off
Bytes(p, off, n) == SubSeq(p, off + 1, off + n)

At(p, off) == p[off + 1]

BitSet(x, mask) == (x \div mask) % 2 = 1

ApMac(i) == <<0, 17, 34, 51, 68, i>>
StaMac(i) == <<2, 0, 0, 0, 0, 16 + i>>
Nonce(i) == Rep(i, 32)
ReplayCtr(i) == <<0, 0, 0, 0, 0, 0, 0, i>>
MicOf(i) == Rep(160 + i, 16)

ZeroMac == Rep(0, 6)
ZeroEntry ==
  [bssid |-> ZeroMac, sta |-> ZeroMac, anonce |-> Rep(0, 32),
   replay_counter |-> Rep(0, 8), key_desc_type |-> 0, key_desc_version |-> 0,
   last_seen |-> 0, valid |-> FALSE]

Slots == 0..(HANDSHAKE_CACHE_SIZE - 1)

(***************************************************************************)
(* calc_80211_header_len                                                   *)
(***************************************************************************)
calc_80211_header_len(fc0, fc1) ==
  LET type == (fc0 \div 4) % 4
      subtype == (fc0 \div 16) % 16
  IN 24
     + (IF type = 2 /\ BitSet(subtype, 8) THEN 2 ELSE 0)
     + (IF BitSet(fc1, 128) THEN 4 ELSE 0)
     + (IF fc1 % 4 = 3 THEN 6 ELSE 0)

(***************************************************************************)
(* extract_data_frame_addrs: the offsets of the three pointers it returns  *)
(***************************************************************************)
extract_data_frame_addrs(fc1) ==
  LET to_ds == fc1 % 2
      from_ds == (fc1 \div 2) % 2
  IN IF to_ds = 0 /\ from_ds = 0
       THEN [da |-> 4, sta |-> 10, bssid |-> 16]
     ELSE IF to_ds = 0 /\ from_ds = 1
       THEN [da |-> 4, bssid |-> 10, sta |-> 4]
     ELSE IF to_ds = 1 /\ from_ds = 0
       THEN [bssid |-> 4, sta |-> 10, da |-> 16]
     ELSE [da |-> 16, sta |-> 22, bssid |-> 4]

(***************************************************************************)
(* Frames on the air                                                       *)
(***************************************************************************)
\* 802.11 MAC header: FC(2) Dur(2) Addr1 Addr2 Addr3 SeqCtl(2) [Addr4] [QoS]
MacHeader(fc0, fc1, a1, a2, a3, seq, a4) ==
  <<fc0, fc1, 0, 0>> \o a1 \o a2 \o a3 \o seq
    \o (IF fc1 % 4 = 3 THEN a4 ELSE <<>>)
    \o (IF (fc0 \div 4) % 4 = 2 /\ BitSet(fc0 \div 16, 8) THEN <<0, 0>> ELSE <<>>)

\* EAPOL-Key body of EAPOL_KEY_MIN_LEN bytes (no key data)
KeyBody(desc_type, key_info, rc, nonce, mic) ==
  <<desc_type, key_info \div 256, key_info % 256, 0, 16>> \o rc \o nonce
    \o Rep(0, 16) \o Rep(0, 8) \o Rep(0, 8) \o mic \o <<0, 0>>

EapolKeyFrame(hdr, key_info, rc, nonce, mic) ==
  hdr \o LLC_SNAP_EAPOL \o <<2, 3, 0, EAPOL_KEY_MIN_LEN>>
      \o KeyBody(2, key_info, rc, nonce, mic)

KI_M1 == {138}
KI_M2 == {266}
KI_M3 == {5066}
KI_M4 == {778}

\* Messages 1 and 3 travel from the access point (FromDS), 2 and 4 to it (ToDS)
AirFrame(b, s, ki, n, rc) ==
  IF BitSet(ki, 128)
    THEN EapolKeyFrame(MacHeader(8, 2, StaMac(s), ApMac(b), ApMac(b), <<0, 0>>, <<>>),
                       ki, ReplayCtr(rc), Nonce(n), Rep(0, 16))
    ELSE EapolKeyFrame(MacHeader(8, 1, ApMac(b), StaMac(s), ApMac(b), <<0, 0>>, <<>>),
                       ki, ReplayCtr(rc), Nonce(n), MicOf(n))

(***************************************************************************)
(* process_eapol, step by step                                             *)
(***************************************************************************)
\* the validation sequence without its last step (the key-descriptor type)
EapolValidAnyDescriptor(payload, len, header_len) ==
  /\ len >= header_len + 8 + 4 + EAPOL_KEY_MIN_LEN
  /\ Bytes(payload, header_len, 8) = LLC_SNAP_EAPOL
  /\ At(payload, header_len + 8 + 1) = 3
  /\ LET eapol_body_len == At(payload, header_len + 8 + 2) * 256
                             + At(payload, header_len + 8 + 3)
     IN /\ len >= (header_len + 8) + (4 + eapol_body_len)
        /\ eapol_body_len >= EAPOL_KEY_MIN_LEN

\* the validation sequence without the truncated-packet test
EapolValidWithoutTruncationTest(payload, len, header_len) ==
  /\ len >= header_len + 8 + 4 + EAPOL_KEY_MIN_LEN
  /\ Bytes(payload, header_len, 8) = LLC_SNAP_EAPOL
  /\ At(payload, header_len + 8 + 1) = 3
  /\ LET eapol_body_len == At(payload, header_len + 8 + 2) * 256
                             + At(payload, header_len + 8 + 3)
     IN eapol_body_len >= EAPOL_KEY_MIN_LEN
  /\ At(payload, header_len + 12 + EAPOL_KEY_DESC_TYPE_OFFSET) \in {2, 254}

\* the validation sequence: TRUE iff the frame reaches the classification
EapolValid(payload, len, header_len) ==
  /\ len >= header_len + 8 + 4 + EAPOL_KEY_MIN_LEN
  /\ Bytes(payload, header_len, 8) = LLC_SNAP_EAPOL
  /\ At(payload, header_len + 8 + 1) = 3
  /\ LET eapol_body_len == At(payload, header_len + 8 + 2) * 256
                             + At(payload, header_len + 8 + 3)
     IN /\ len >= (header_len + 8) + (4 + eapol_body_len)
        /\ eapol_body_len >= EAPOL_KEY_MIN_LEN
  /\ At(payload, header_len + 12 + EAPOL_KEY_DESC_TYPE_OFFSET) \in {2, 254}

KeyInfo(payload, header_len) ==
  At(payload, header_len + 12 + EAPOL_KEY_INFO_OFFSET) * 256
    + At(payload, header_len + 12 + EAPOL_KEY_INFO_OFFSET + 1)

IsMessage1(key_info) == BitSet(key_info, 128) /\ ~BitSet(key_info, 256)

\* a Message-2 test that leaves the secure bit out
IsMessage2AnySecure(key_info) ==
  BitSet(key_info, 256) /\ ~BitSet(key_info, 128)

IsMessage2(key_info) ==
  BitSet(key_info, 256) /\ ~BitSet(key_info, 128) /\ ~BitSet(key_info, 512)

\* (now - last_seen) in uint32_t; the model's clock never wraps, so the
\* difference is the integer difference
Expired(e, t) == (t - e.last_seen) > CACHE_TIMEOUT_MS

\* the slot search of the Message-1 branch
RECURSIVE FindSlotFrom(_, _, _, _, _)
FindSlotFrom(cache, t, i, oldest_time, oldest_slot) ==
  IF i = HANDSHAKE_CACHE_SIZE THEN oldest_slot
  ELSE IF ~cache[i].valid THEN i
  ELSE IF Expired(cache[i], t) THEN i
  ELSE IF cache[i].last_seen < oldest_time
    THEN FindSlotFrom(cache, t, i + 1, cache[i].last_seen, i)
  ELSE FindSlotFrom(cache, t, i + 1, oldest_time, oldest_slot)

\* the search with oldest_slot never updated: slot 0 when nothing is free
FindSlotOldestUntracked(cache, t) ==
  LET free == {i \in Slots : ~cache[i].valid \/ Expired(cache[i], t)}
  IN IF free = {} THEN 0 ELSE CHOOSE i \in free : \A j \in free : i <= j

FindSlot(cache, t) == FindSlotFrom(cache, t, 0, OLDEST_TIME_INIT, 0)

\* the lookup of the Message-2 branch: first matching slot, or -1
FindMatchBssidOnly(cache, bssid, sta) ==
  LET hits == {i \in Slots : cache[i].valid /\ cache[i].bssid = bssid}
  IN IF hits = {} THEN -1 ELSE CHOOSE i \in hits : \A j \in hits : i <= j

FindMatch(cache, bssid, sta) ==
  LET hits == {i \in Slots : /\ cache[i].valid
                             /\ cache[i].bssid = bssid
                             /\ cache[i].sta = sta}
  IN IF hits = {} THEN -1 ELSE CHOOSE i \in hits : \A j \in hits : i <= j

Pair(payload) ==
  LET a == extract_data_frame_addrs(At(payload, 1))
  IN [bssid |-> Bytes(payload, a.bssid, 6), sta |-> Bytes(payload, a.sta, 6)]

CacheM1(payload, header_len, slot) ==
  LET eapol == header_len + 12
      key_info == KeyInfo(payload, header_len)
  IN [bssid |-> Pair(payload).bssid,
      sta |-> Pair(payload).sta,
      anonce |-> Bytes(payload, eapol + EAPOL_KEY_NONCE_OFFSET, 32),
      replay_counter |-> Bytes(payload, eapol + EAPOL_KEY_REPLAY_OFFSET, 8),
      key_desc_type |-> At(payload, eapol + EAPOL_KEY_DESC_TYPE_OFFSET),
      key_desc_version |-> key_info % 8,
      last_seen |-> now,
      valid |-> TRUE]

Min(a, b) == IF a < b THEN a ELSE b

BuildHandshake(payload, header_len, e) ==
  LET eapol == header_len + 12
      eapol_total_len == 4 + At(payload, header_len + 10) * 256
                           + At(payload, header_len + 11)
      frame_len == Min(eapol_total_len, MAX_EAPOL_FRAME_SIZE)
  IN [bssid |-> Pair(payload).bssid,
      sta |-> Pair(payload).sta,
      anonce |-> e.anonce,
      snonce |-> Bytes(payload, eapol + EAPOL_KEY_NONCE_OFFSET, 32),
      mic |-> Bytes(payload, eapol + EAPOL_KEY_MIC_OFFSET, 16),
      replay_counter |-> e.replay_counter,
      key_desc_type |-> e.key_desc_type,
      key_desc_version |-> e.key_desc_version,
      eapol_len |-> frame_len,
      timestamp |-> now]

NoHs == [bssid |-> ZeroMac]
NoOp == [kind |-> "none"]
NoRx == [len |-> 0]
NoEvent == [type |-> "none"]
\* the callback is not running
CbIdle == [pc |-> "idle", type |-> "", payload |-> <<>>, len |-> 0,
           takes |-> 0, gives |-> 0, slot |-> -1, hs |-> NoHs]

ProcessM1(payload, header_len) ==
  LET slot == FindSlot(g_handshake_cache, now)
  IN /\ g_m1_count' = g_m1_count + 1
     /\ g_handshake_cache' =
          [g_handshake_cache EXCEPT ![slot] = CacheM1(payload, header_len, slot)]
     /\ last_op' = [kind |-> "m1", pair |-> Pair(payload), at |-> now,
                    n |-> g_pkt_count + 1, hit |-> FALSE, slot |-> slot,
                    full |-> \A i \in Slots :
                               /\ g_handshake_cache[i].valid
                               /\ ~Expired(g_handshake_cache[i], now)]
     /\ done_pairs' = done_pairs \ {Pair(payload)}
     /\ UNCHANGED <<g_m2_count, g_complete_count, hs_emitted, last_hs>>

ProcessM2(payload, header_len) ==
  LET p == Pair(payload)
      i == FindMatch(g_handshake_cache, p.bssid, p.sta)
  IN /\ g_m2_count' = g_m2_count + 1
     /\ last_op' = [kind |-> "m2", pair |-> p, at |-> now,
                    n |-> g_pkt_count + 1, hit |-> (i # -1)]
     /\ IF i # -1
          THEN /\ g_complete_count' = g_complete_count + 1
               /\ last_hs' = BuildHandshake(payload, header_len, g_handshake_cache[i])
               /\ g_handshake_cache' = [g_handshake_cache EXCEPT ![i].valid = FALSE]
               /\ hs_emitted' = hs_emitted + 1
               /\ done_pairs' = done_pairs \cup {p}
          ELSE UNCHANGED <<g_complete_count, last_hs, g_handshake_cache,
                           hs_emitted, done_pairs>>
     /\ UNCHANGED g_m1_count

process_eapol(payload, len, header_len) ==
  IF ~EapolValid(payload, len, header_len)
    THEN /\ last_op' = [kind |-> "drop", n |-> g_pkt_count + 1]
         /\ UNCHANGED <<g_handshake_cache, g_m1_count, g_m2_count,
                        g_complete_count, hs_emitted, last_hs, done_pairs>>
  ELSE IF IsMessage1(KeyInfo(payload, header_len))
    THEN ProcessM1(payload, header_len)
  ELSE IF IsMessage2(KeyInfo(payload, header_len))
    THEN ProcessM2(payload, header_len)
  ELSE /\ last_op' = [kind |-> "other", n |-> g_pkt_count + 1]
       /\ UNCHANGED <<g_handshake_cache, g_m1_count, g_m2_count,
                      g_complete_count, hs_emitted, last_hs, done_pairs>>

\* promisc_rx_cb for a data frame (type WIFI_PKT_DATA) of sig_len = len
promisc_rx_cb(payload, len) ==
  /\ g_pkt_count' = g_pkt_count + 1
  /\ IF len < 24 \/ (At(payload, 0) \div 4) % 4 # 2
        \/ calc_80211_header_len(At(payload, 0), At(payload, 1)) > len
       THEN /\ last_op' = [kind |-> "drop", n |-> g_pkt_count + 1]
            /\ UNCHANGED <<g_handshake_cache, g_m1_count, g_m2_count,
                           g_complete_count, hs_emitted, last_hs, done_pairs>>
       ELSE process_eapol(payload, len,
                          calc_80211_header_len(At(payload, 0), At(payload, 1)))
  /\ UNCHANGED <<now, n_clears, avars, rvars, tvars, mvars, hvars>>

\* Every frame on the air carries a fresh nonce and replay counter, named by
\* the frame's ordinal
RxMessage1 ==
  /\ g_pkt_count < MaxFrames
  /\ rx_bad' = NoRx
  /\ UNCHANGED kvars
  /\ \E b \in Aps, s \in Stas, ki \in KI_M1 :
       LET f == AirFrame(b, s, ki, g_pkt_count + 1, g_pkt_count + 1)
       IN promisc_rx_cb(f, Len(f))

RxMessage2 ==
  /\ g_pkt_count < MaxFrames
  /\ rx_bad' = NoRx
  /\ UNCHANGED kvars
  /\ \E b \in Aps, s \in Stas, ki \in KI_M2 :
       LET f == AirFrame(b, s, ki, g_pkt_count + 1, g_pkt_count + 1)
       IN promisc_rx_cb(f, Len(f))

RxMessage34 ==
  /\ g_pkt_count < MaxFrames
  /\ rx_bad' = NoRx
  /\ UNCHANGED kvars
  /\ \E b \in Aps, s \in Stas, ki \in KI_M3 \cup KI_M4 :
       LET f == AirFrame(b, s, ki, g_pkt_count + 1, g_pkt_count + 1)
       IN promisc_rx_cb(f, Len(f))

wifi_clear_handshake_cache ==
  /\ n_clears < MaxClears
  /\ n_clears' = n_clears + 1
  /\ g_handshake_cache' = [i \in Slots |-> ZeroEntry]
  /\ g_m1_count' = 0
  /\ g_m2_count' = 0
  /\ g_complete_count' = 0
  /\ last_op' = [kind |-> "clear", n |-> g_pkt_count]
  /\ UNCHANGED <<g_pkt_count, now, hs_emitted, last_hs, done_pairs, rx_bad,
                 avars, rvars, tvars, mvars, kvars, hvars>>

Tick ==
  /\ now < MaxTicks * TickMs
  /\ now' = now + TickMs
  /\ UNCHANGED <<g_handshake_cache, g_m1_count, g_m2_count, g_complete_count,
                 g_pkt_count, hs_emitted, last_hs, last_op, done_pairs,
                 n_clears, rx_bad, avars, rvars, tvars, mvars, kvars, hvars>>

EapolState0 ==
  /\ g_handshake_cache = [i \in Slots |-> ZeroEntry]
  /\ g_m1_count = 0
  /\ g_m2_count = 0
  /\ g_complete_count = 0
  /\ g_pkt_count = 0
  /\ now = 0
  /\ hs_emitted = 0
  /\ last_hs = NoHs
  /\ last_op = NoOp
  /\ done_pairs = {}
  /\ n_clears = 0
  /\ rx_bad = NoRx
  /\ g_recon_mode = FALSE
  /\ mgmt_out = NoEvent
  /\ n_mgmt_out = 0
  /\ deauth_result = NoEvent
  /\ rx_in = NoRx
  /\ g_sniffer_cb = FALSE
  /\ g_cache_mutex = "free"
  /\ cb = CbIdle
  /\ clr = "idle"
  /\ fwd_out = NoRx
  /\ n_fwd = 0
  /\ n_eapol = 0
  /\ hop_log = <<>>

AddrState0 ==
  /\ ax_frame = <<>>
  /\ ax_out = <<>>

NextEapol ==
  \/ RxMessage1
  \/ RxMessage2
  \/ RxMessage34
  \/ wifi_clear_handshake_cache
  \/ Tick


(***************************************************************************)
(* Radio-mode operations                                                   *)
(***************************************************************************)
MaxOps == 2          \* operations started by the calling contexts
MaxFaults == 1       \* driver calls that fail
MaxCount == 2        \* largest packet count of a burst
MaxHoppers == 2      \* hopper tasks alive at once
MaxHops == 2         \* channel changes made by hopper tasks

Ctx == {1, 2}        \* calling contexts (serial command task, main loop)
Channels == {0, 6, 11}   \* channel arguments
ORIG_MAC == 0        \* the interface's own address
SPOOF_MAC == 1       \* the access-point address a burst impersonates
CMD_DEAUTH_REASON == 7   \* the reason cmd_deauth passes

\* a table that ends on 12 twice and leaves 13 out
hop_channels_without_13 ==
  <<1, 1, 1, 2, 3, 4, 5, 6, 6, 6, 7, 8, 9, 10, 11, 11, 11, 12, 12>>

hop_channels == <<1, 1, 1, 2, 3, 4, 5, 6, 6, 6, 7, 8, 9, 10, 11, 11, 11, 12, 13>>

\* the driver after esp_wifi_init
DrvInit ==
  [mode |-> "NULL", started |-> FALSE, promisc |-> FALSE, channel |-> 1,
   mac |-> ORIG_MAC]

Call(op, arg, check) == [op |-> op, arg |-> arg, check |-> check]

\* the effect of one successful driver call
DrvApply(d, call) ==
  CASE call.op = "esp_wifi_stop" -> [d EXCEPT !.started = FALSE]
    [] call.op = "esp_wifi_start" -> [d EXCEPT !.started = TRUE]
    [] call.op = "esp_wifi_set_mode" -> [d EXCEPT !.mode = call.arg]
    [] call.op = "esp_wifi_set_channel" -> [d EXCEPT !.channel = call.arg]
    [] call.op = "esp_wifi_set_promiscuous" -> [d EXCEPT !.promisc = call.arg]
    [] call.op = "esp_wifi_set_mac" -> [d EXCEPT !.mac = call.arg]
    [] OTHER -> d

\* esp_wifi_set_channel returns ESP_ERR_INVALID_ARG for a channel that does
\* not exist
DrvRejects(call) ==
  call.op = "esp_wifi_set_channel" /\ (call.arg < 1 \/ call.arg > 14)

\* A run of driver calls of which call number f fails (0: none fails). A
\* failing call changes nothing; under ESP_ERROR_CHECK it aborts the process,
\* with its result tested ("return") it ends the run, otherwise it is ignored.
RECURSIVE RunCalls(_, _, _, _)
RunCalls(d, calls, i, f) ==
  IF i > Len(calls) THEN [drv |-> d, aborted |-> FALSE, err |-> FALSE]
  ELSE IF i = f \/ DrvRejects(calls[i])
    THEN IF calls[i].check = "abort" THEN [drv |-> d, aborted |-> TRUE, err |-> TRUE]
         ELSE IF calls[i].check = "return" THEN [drv |-> d, aborted |-> FALSE, err |-> TRUE]
         ELSE RunCalls(d, calls, i + 1, f)
  ELSE RunCalls(DrvApply(d, calls[i]), calls, i + 1, f)

FaultChoices(calls) == {f \in 0..Len(calls) : f = 0 \/ n_faults < MaxFaults}

ValidChannel(channel) == channel > 0 /\ channel <= 13

\* a clamp that tests the lower limit only
ClampChannelLowOnly(channel) == IF channel > 0 THEN channel ELSE 1

\* (channel > 0 && channel <= 13) ? channel : 1
ClampChannel(channel) == IF ValidChannel(channel) THEN channel ELSE 1

\* wifi_scan_start: lines 284-291
ScanCfgCalls ==
  (IF g_promiscuous_active
     THEN <<Call("esp_wifi_set_promiscuous", FALSE, "ignore")>> ELSE <<>>)
  \o <<Call("esp_wifi_stop", 0, "ignore"),
       Call("esp_wifi_set_mode", "STA", "abort"),
       Call("esp_wifi_start", 0, "abort")>>

\* wifi_scan_start: line 303
ScanRunCalls == <<Call("esp_wifi_scan_start", 0, "return")>>

\* wifi_sniffer_start: lines 406-422
SnifferCfg1Calls ==
  <<Call("esp_wifi_stop", 0, "ignore"),
    Call("esp_wifi_set_mode", "AP", "abort"),
    Call("esp_wifi_set_config", 0, "abort"),
    Call("esp_wifi_start", 0, "abort"),
    Call("esp_wifi_set_ps", 0, "abort")>>

\* wifi_sniffer_start: lines 424-433
SnifferCfg2Calls(channel) ==
  <<Call("esp_wifi_set_channel", ClampChannel(channel), "abort"),
    Call("esp_wifi_set_promiscuous_filter", 0, "abort"),
    Call("esp_wifi_set_promiscuous_rx_cb", 0, "abort"),
    Call("esp_wifi_set_promiscuous", TRUE, "abort")>>

\* wifi_sniffer_stop: line 464
SnifferStopCalls == <<Call("esp_wifi_set_promiscuous", FALSE, "ignore")>>

\* channel_hopper_task: line 382; wifi_set_channel: line 486
HopCalls(channel) == <<Call("esp_wifi_set_channel", channel, "ignore")>>

SetChannelCalls(channel) == <<Call("esp_wifi_set_channel", channel, "return")>>

\* wifi_send_deauth_burst: lines 521-546
BurstSetupCalls(was_promisc, ap_mac, channel) ==
  (IF was_promisc
     THEN <<Call("esp_wifi_set_promiscuous", FALSE, "ignore")>> ELSE <<>>)
  \o <<Call("esp_wifi_stop", 0, "ignore"),
       Call("esp_wifi_set_mac", ap_mac, "ignore"),
       Call("esp_wifi_set_mode", "APSTA", "abort"),
       Call("esp_wifi_set_config", 0, "abort"),
       Call("esp_wifi_start", 0, "abort"),
       Call("esp_wifi_set_ps", 0, "abort"),
       Call("esp_wifi_set_channel", channel, "abort"),
       Call("esp_wifi_set_promiscuous", TRUE, "ignore")>>

\* wifi_send_deauth_burst: lines 593-594
BurstRestoreCalls(original_mac) ==
  <<Call("esp_wifi_stop", 0, "ignore"),
    Call("esp_wifi_set_mac", original_mac, "ignore")>>

IdleCtx ==
  [pc |-> "idle", op |-> "none", ret |-> "none", channel |-> 0, arg |-> 0,
   ss_channel |-> 0, was_promisc |-> FALSE, was_hopping |-> FALSE,
   original_mac |-> ORIG_MAC, count |-> 0, i |-> 0, sent |-> 0,
   fault |-> "none", alone |-> TRUE, target |-> 0, reason |-> 0]

RadioIdle ==
  /\ g_promiscuous_active = FALSE
  /\ g_channel_hopping = FALSE
  /\ g_hopper_running = FALSE
  /\ g_current_channel = 1
  /\ g_hop_index = 0
  /\ g_hopper_task = 0
  /\ g_wifi_mutex = 0
  /\ drv = DrvInit
  /\ hopper = [t \in 1..MaxHoppers |-> "none"]
  /\ ctx = [c \in Ctx |-> IdleCtx]
  /\ aborted = FALSE
  /\ n_ops = 0
  /\ n_faults = 0
  /\ n_hops = 0
  /\ tx_frame = <<>>
  /\ tx_count = 0
  /\ stop_done = FALSE

RadioState0 ==
  /\ g_deauth_seq = 0
  /\ RadioIdle


\* ---- the channel hopper task -------------------------------------------
FreeHoppers == {t \in 1..MaxHoppers : hopper[t] = "none"}

\* xTaskCreate(channel_hopper_task, ..., &g_hopper_task)
CreateHopper ==
  /\ FreeHoppers # {}
  /\ LET t == CHOOSE x \in FreeHoppers : \A y \in FreeHoppers : x <= y
     IN /\ hopper' = [hopper EXCEPT ![t] = "start"]
        /\ g_hopper_task' = t

HopperStart(t) ==
  /\ ~aborted
  /\ hopper[t] = "start"
  /\ g_hopper_running' = TRUE
  /\ hopper' = [hopper EXCEPT ![t] = "check"]
  /\ UNCHANGED <<g_promiscuous_active, g_channel_hopping, g_current_channel,
                 g_hop_index, g_hopper_task, g_wifi_mutex, g_deauth_seq, drv,
                 ctx, aborted, n_ops, n_faults, n_hops, evars, avars, tvars, mvars, kvars, hvars>>

\* while (g_channel_hopping), and the exit after the loop
HopperCheck(t) ==
  /\ ~aborted
  /\ hopper[t] = "check"
  /\ IF g_channel_hopping
       THEN /\ hopper' = [hopper EXCEPT ![t] = "hop"]
            /\ UNCHANGED <<g_hopper_running, g_hopper_task>>
       ELSE /\ g_hopper_running' = FALSE
            /\ g_hopper_task' = 0
            /\ hopper' = [hopper EXCEPT ![t] = "none"]
  /\ UNCHANGED <<g_promiscuous_active, g_channel_hopping, g_current_channel,
                 g_hop_index, g_wifi_mutex, g_deauth_seq, drv, ctx, aborted,
                 n_ops, n_faults, n_hops, evars, avars, tvars, mvars, kvars, hvars>>

\* the loop body, up to the end of its delay; the run makes at most limit hops
HopperHopUpTo(t, limit) ==
  /\ ~aborted
  /\ hopper[t] = "hop"
  /\ n_hops < limit
  /\ n_hops' = n_hops + 1
  /\ g_hop_index' = (g_hop_index + 1) % Len(hop_channels)
  /\ g_current_channel' = hop_channels[g_hop_index' + 1]
  /\ \E f \in FaultChoices(HopCalls(g_current_channel')) :
       /\ drv' = RunCalls(drv, HopCalls(g_current_channel'), 1, f).drv
       /\ n_faults' = n_faults + (IF f = 0 THEN 0 ELSE 1)
  /\ hopper' = [hopper EXCEPT ![t] = "check"]
  /\ UNCHANGED <<g_promiscuous_active, g_channel_hopping, g_hopper_running,
                 g_hopper_task, g_wifi_mutex, g_deauth_seq, ctx, aborted,
                 n_ops, evars, avars, tvars, mvars, kvars>>

HopperHop(t) == HopperHopUpTo(t, MaxHops) /\ UNCHANGED hvars

\* ---- calling contexts ---------------------------------------------------
CanStart(c) ==
  /\ ~aborted
  /\ ctx[c].pc = "idle"
  /\ n_ops < MaxOps
  /\ \A k \in Ctx : k < c => ctx[k].pc # "idle"

\* context c enters an operation with locals r; "alone" records whether any
\* other context is inside an operation at the same time
Enter(c, r) ==
  /\ n_ops' = n_ops + 1
  /\ ctx' = [k \in Ctx |->
               IF k = c
                 THEN [r EXCEPT !.alone = \A j \in Ctx \ {c} : ctx[j].pc = "idle"]
                 ELSE [ctx[k] EXCEPT !.alone = (ctx[k].pc = "idle")]]

Goto(c, label) == ctx' = [ctx EXCEPT ![c].pc = label]

Return(c, value) == ctx' = [ctx EXCEPT ![c].pc = "idle", ![c].ret = value]

\* wifi_sniffer_start(channel), wifi_sniffer_stop(), wifi_scan_start(): up to
\* xSemaphoreTake
CallSnifferStart(c, channel) ==
  /\ CanStart(c)
  /\ Enter(c, [IdleCtx EXCEPT !.pc = "ss_take", !.op = "sniffer_start",
                              !.arg = channel, !.ss_channel = channel])
  /\ UNCHANGED <<g_promiscuous_active, g_channel_hopping, g_hopper_running,
                 g_current_channel, g_hop_index, g_hopper_task, g_wifi_mutex,
                 g_deauth_seq, drv, hopper, aborted, n_faults, n_hops,
                 evars, avars, tvars, mvars, kvars, hvars>>

CallSnifferStop(c) ==
  /\ CanStart(c)
  /\ Enter(c, [IdleCtx EXCEPT !.pc = "st_take", !.op = "sniffer_stop"])
  /\ UNCHANGED <<g_promiscuous_active, g_channel_hopping, g_hopper_running,
                 g_current_channel, g_hop_index, g_hopper_task, g_wifi_mutex,
                 g_deauth_seq, drv, hopper, aborted, n_faults, n_hops,
                 evars, avars, tvars, mvars, kvars, hvars>>

CallScanStart(c) ==
  /\ CanStart(c)
  /\ Enter(c, [IdleCtx EXCEPT !.pc = "sc_take", !.op = "scan_start"])
  /\ UNCHANGED <<g_promiscuous_active, g_channel_hopping, g_hopper_running,
                 g_current_channel, g_hop_index, g_hopper_task, g_wifi_mutex,
                 g_deauth_seq, drv, hopper, aborted, n_faults, n_hops,
                 evars, avars, tvars, mvars, kvars, hvars>>

\* xSemaphoreTake(g_wifi_mutex, portMAX_DELAY); the sniffer operations then
\* clear g_channel_hopping
TakeMutex(c) ==
  /\ ~aborted
  /\ ctx[c].pc \in {"ss_take", "st_take", "sc_take"}
  /\ g_wifi_mutex = 0
  /\ g_wifi_mutex' = c
  /\ g_channel_hopping' =
       (IF ctx[c].pc = "sc_take" THEN g_channel_hopping ELSE FALSE)
  /\ Goto(c, CASE ctx[c].pc = "ss_take" -> "ss_wait"
                [] ctx[c].pc = "st_take" -> "st_wait"
                [] OTHER -> "sc_cfg")
  /\ UNCHANGED <<g_promiscuous_active, g_hopper_running, g_current_channel,
                 g_hop_index, g_hopper_task, g_deauth_seq, drv, hopper,
                 aborted, n_ops, n_faults, n_hops, evars, avars, tvars, mvars, kvars, hvars>>

\* while (g_hopper_running) vTaskDelay(...)
SnifferStartWait(c) ==
  /\ ~aborted
  /\ ctx[c].pc = "ss_wait"
  /\ ~g_hopper_running
  /\ Goto(c, "ss_cfg1")
  /\ UNCHANGED <<g_promiscuous_active, g_channel_hopping, g_hopper_running,
                 g_current_channel, g_hop_index, g_hopper_task, g_wifi_mutex,
                 g_deauth_seq, drv, hopper, aborted, n_ops, n_faults, n_hops,
                 evars, avars, tx_frame,
                 tx_count, mvars, kvars, hvars>>
  /\ stop_done' = TRUE

\* esp_wifi_stop ... esp_wifi_set_ps
SnifferStartCfg1(c) ==
  /\ ~aborted
  /\ ctx[c].pc = "ss_cfg1"
  /\ \E f \in FaultChoices(SnifferCfg1Calls) :
       LET r == RunCalls(drv, SnifferCfg1Calls, 1, f)
       IN /\ drv' = r.drv
          /\ aborted' = r.aborted
          /\ n_faults' = n_faults + (IF f = 0 THEN 0 ELSE 1)
          /\ ctx' = [ctx EXCEPT
                       ![c].pc = IF r.aborted THEN @ ELSE "ss_cfg2",
                       ![c].fault = IF f = 0 THEN @ ELSE "sniffer_start"]
  /\ UNCHANGED <<g_promiscuous_active, g_channel_hopping, g_hopper_running,
                 g_current_channel, g_hop_index, g_hopper_task, g_wifi_mutex,
                 g_deauth_seq, hopper, n_ops, n_hops, evars, avars, tvars, mvars, kvars, hvars>>

\* g_current_channel = ... up to the return; a nested call (from the burst)
\* returns into the burst
SnifferStartCfg2(c) ==
  /\ ~aborted
  /\ ctx[c].pc = "ss_cfg2"
  /\ g_current_channel' = ClampChannel(ctx[c].ss_channel)
  /\ \E f \in FaultChoices(SnifferCfg2Calls(ctx[c].ss_channel)) :
       LET r == RunCalls(drv, SnifferCfg2Calls(ctx[c].ss_channel), 1, f)
       IN /\ drv' = r.drv
          /\ aborted' = r.aborted
          /\ n_faults' = n_faults + (IF f = 0 THEN 0 ELSE 1)
          /\ IF r.aborted
               THEN /\ ctx' = [ctx EXCEPT ![c].fault = "sniffer_start"]
                    /\ UNCHANGED <<g_promiscuous_active, g_channel_hopping,
                                   g_hopper_task, g_wifi_mutex, hopper>>
               ELSE /\ g_promiscuous_active' = TRUE
                    /\ IF ctx[c].ss_channel = 0
                         THEN g_channel_hopping' = TRUE /\ CreateHopper
                         ELSE UNCHANGED <<g_channel_hopping, hopper, g_hopper_task>>
                    /\ g_wifi_mutex' = 0
                    /\ IF ctx[c].op = "deauth_burst"
                         THEN Goto(c, "b_resume")
                         ELSE Return(c, "ESP_OK")
  /\ UNCHANGED <<g_hopper_running, g_hop_index, g_deauth_seq, n_ops, n_hops,
                 evars, avars, tx_frame,
                 tx_count, mvars, kvars, hvars>>
  /\ stop_done' = (stop_done /\ ~g_channel_hopping')

\* while (g_hopper_running && timeout > 0): left when the hopper has stopped,
\* or when the 500 ms have run out
SnifferStopWait(c) ==
  /\ ~aborted
  /\ ctx[c].pc = "st_wait"
  /\ Goto(c, "st_off")
  /\ UNCHANGED <<g_promiscuous_active, g_channel_hopping, g_hopper_running,
                 g_current_channel, g_hop_index, g_hopper_task, g_wifi_mutex,
                 g_deauth_seq, drv, hopper, aborted, n_ops, n_faults, n_hops,
                 evars, avars, tvars, mvars, kvars, hvars>>

SnifferStopOff(c) ==
  /\ ~aborted
  /\ ctx[c].pc = "st_off"
  /\ \E f \in FaultChoices(SnifferStopCalls) :
       /\ drv' = RunCalls(drv, SnifferStopCalls, 1, f).drv
       /\ n_faults' = n_faults + (IF f = 0 THEN 0 ELSE 1)
  /\ g_promiscuous_active' = FALSE
  /\ g_wifi_mutex' = 0
  /\ Return(c, "ESP_OK")
  /\ UNCHANGED <<g_channel_hopping, g_hopper_running, g_current_channel,
                 g_hop_index, g_hopper_task, g_deauth_seq, hopper, aborted,
                 n_ops, n_hops, evars, avars, tx_frame,
                 tx_count, mvars, kvars, hvars>>
  /\ stop_done' = TRUE

\* wifi_scan_start: leaving promiscuous mode, station mode, start
ScanCfg(c) ==
  /\ ~aborted
  /\ ctx[c].pc = "sc_cfg"
  /\ \E f \in FaultChoices(ScanCfgCalls) :
       LET r == RunCalls(drv, ScanCfgCalls, 1, f)
       IN /\ drv' = r.drv
          /\ aborted' = r.aborted
          /\ n_faults' = n_faults + (IF f = 0 THEN 0 ELSE 1)
          /\ ctx' = [ctx EXCEPT
                       ![c].pc = IF r.aborted THEN @ ELSE "sc_run",
                       ![c].fault = IF f = 0 THEN @ ELSE "scan_start"]
  /\ g_promiscuous_active' = FALSE
  /\ UNCHANGED <<g_channel_hopping, g_hopper_running, g_current_channel,
                 g_hop_index, g_hopper_task, g_wifi_mutex, g_deauth_seq,
                 hopper, n_ops, n_hops, evars, avars, tvars, mvars, kvars, hvars>>

\* esp_wifi_scan_start (blocking), the results, xSemaphoreGive
ScanRun(c) ==
  /\ ~aborted
  /\ ctx[c].pc = "sc_run"
  /\ \E f \in FaultChoices(ScanRunCalls) :
       LET r == RunCalls(drv, ScanRunCalls, 1, f)
       IN /\ drv' = r.drv
          /\ n_faults' = n_faults + (IF f = 0 THEN 0 ELSE 1)
          /\ ctx' = [ctx EXCEPT
                       ![c].pc = "idle",
                       ![c].ret = IF r.err THEN "ESP_FAIL" ELSE "ESP_OK",
                       ![c].fault = IF f = 0 THEN @ ELSE "scan_start"]
  /\ g_wifi_mutex' = 0
  /\ UNCHANGED <<g_promiscuous_active, g_channel_hopping, g_hopper_running,
                 g_current_channel, g_hop_index, g_hopper_task, g_deauth_seq,
                 hopper, aborted, n_ops, n_hops, evars, avars, tvars, mvars, kvars, hvars>>


\* wifi_set_channel_hopping(enable): no mutex
wifi_set_channel_hopping(c, enable) ==
  /\ CanStart(c)
  /\ IF enable /\ ~g_channel_hopping /\ g_promiscuous_active
       THEN g_channel_hopping' = TRUE /\ CreateHopper
       ELSE /\ g_channel_hopping' = (IF ~enable THEN FALSE ELSE g_channel_hopping)
            /\ UNCHANGED <<hopper, g_hopper_task>>
  /\ Enter(c, [IdleCtx EXCEPT !.op = "set_channel_hopping", !.arg = enable,
                              !.ret = "void"])
  /\ UNCHANGED <<g_promiscuous_active, g_hopper_running, g_current_channel,
                 g_hop_index, g_wifi_mutex, g_deauth_seq, drv, aborted,
                 n_faults, n_hops, evars, avars, tx_frame,
                 tx_count, mvars, kvars, hvars>>
  /\ stop_done' = (stop_done /\ ~g_channel_hopping')

\* wifi_set_channel with the upper limit of the channel left out
wifi_set_channel_no_upper(c, channel) ==
  /\ CanStart(c)
  /\ IF channel < 1
       THEN /\ Enter(c, [IdleCtx EXCEPT !.op = "set_channel", !.arg = channel,
                                        !.ret = "ESP_ERR_INVALID_ARG"])
            /\ UNCHANGED <<g_current_channel, drv, n_faults>>
       ELSE /\ g_current_channel' = channel
            /\ \E f \in FaultChoices(SetChannelCalls(channel)) :
                 LET r == RunCalls(drv, SetChannelCalls(channel), 1, f)
                 IN /\ drv' = r.drv
                    /\ n_faults' = n_faults + (IF f = 0 THEN 0 ELSE 1)
                    /\ Enter(c, [IdleCtx EXCEPT
                                   !.op = "set_channel", !.arg = channel,
                                   !.ret = IF r.err THEN "ESP_FAIL" ELSE "ESP_OK"])
  /\ UNCHANGED <<g_promiscuous_active, g_channel_hopping, g_hopper_running,
                 g_hop_index, g_hopper_task, g_wifi_mutex, g_deauth_seq,
                 hopper, aborted, n_hops, evars, avars, tvars, mvars, kvars, hvars>>

\* wifi_set_channel(channel): no mutex
wifi_set_channel(c, channel) ==
  /\ CanStart(c)
  /\ IF channel < 1 \/ channel > 13
       THEN /\ Enter(c, [IdleCtx EXCEPT !.op = "set_channel", !.arg = channel,
                                        !.ret = "ESP_ERR_INVALID_ARG"])
            /\ UNCHANGED <<g_current_channel, drv, n_faults>>
       ELSE /\ g_current_channel' = channel
            /\ \E f \in FaultChoices(SetChannelCalls(channel)) :
                 LET r == RunCalls(drv, SetChannelCalls(channel), 1, f)
                 IN /\ drv' = r.drv
                    /\ n_faults' = n_faults + (IF f = 0 THEN 0 ELSE 1)
                    /\ Enter(c, [IdleCtx EXCEPT
                                   !.op = "set_channel", !.arg = channel,
                                   !.ret = IF r.err THEN "ESP_FAIL" ELSE "ESP_OK"])
  /\ UNCHANGED <<g_promiscuous_active, g_channel_hopping, g_hopper_running,
                 g_hop_index, g_hopper_task, g_wifi_mutex, g_deauth_seq,
                 hopper, aborted, n_hops, evars, avars, tvars, mvars, kvars, hvars>>

\* wifi_send_deauth_burst(target_mac, ap_mac, channel, reason, count): the
\* entry, up to "Stop hopping" (ap_mac given, the mutex created); target_mac
\* is 0 for NULL, else the number of a station
CallDeauthBurst(c, target_mac, channel, reason, count) ==
  /\ CanStart(c)
  /\ Enter(c, [IdleCtx EXCEPT
                 !.pc = "b_wait", !.op = "deauth_burst", !.arg = channel,
                 !.target = target_mac, !.reason = reason,
                 !.channel = IF channel = 0 THEN g_current_channel ELSE channel,
                 !.count = count,
                 !.was_promisc = g_promiscuous_active,
                 !.was_hopping = g_channel_hopping,
                 !.original_mac = drv.mac])
  /\ g_channel_hopping' = (IF g_channel_hopping THEN FALSE ELSE g_channel_hopping)
  /\ UNCHANGED <<g_promiscuous_active, g_hopper_running, g_current_channel,
                 g_hop_index, g_hopper_task, g_wifi_mutex, g_deauth_seq, drv,
                 hopper, aborted, n_faults, n_hops, evars, avars, tvars, g_recon_mode,
                 mgmt_out, n_mgmt_out, kvars, hvars>>
  /\ deauth_result' = NoEvent

\* if (was_hopping) while (g_hopper_running) vTaskDelay(...)
BurstWait(c) ==
  /\ ~aborted
  /\ ctx[c].pc = "b_wait"
  /\ ctx[c].was_hopping => ~g_hopper_running
  /\ Goto(c, "b_setup")
  /\ UNCHANGED <<g_promiscuous_active, g_channel_hopping, g_hopper_running,
                 g_current_channel, g_hop_index, g_hopper_task, g_wifi_mutex,
                 g_deauth_seq, drv, hopper, aborted, n_ops, n_faults, n_hops,
                 evars, avars, tx_frame,
                 tx_count, mvars, kvars, hvars>>
  /\ stop_done' = (ctx[c].was_hopping \/ stop_done)

\* leave promiscuous mode, stop, spoof the MAC, AP+STA mode, start, channel
BurstSetup(c) ==
  /\ ~aborted
  /\ ctx[c].pc = "b_setup"
  /\ LET calls == BurstSetupCalls(ctx[c].was_promisc, SPOOF_MAC, ctx[c].channel)
     IN \E f \in FaultChoices(calls) :
          LET r == RunCalls(drv, calls, 1, f)
          IN /\ drv' = r.drv
             /\ aborted' = r.aborted
             /\ n_faults' = n_faults + (IF f = 0 THEN 0 ELSE 1)
             /\ ctx' = [ctx EXCEPT
                          ![c].pc = IF r.aborted THEN @ ELSE "b_tx",
                          ![c].fault = IF f = 0 THEN @ ELSE "burst_setup"]
  /\ UNCHANGED <<g_promiscuous_active, g_channel_hopping, g_hopper_running,
                 g_current_channel, g_hop_index, g_hopper_task, g_wifi_mutex,
                 g_deauth_seq, hopper, n_ops, n_hops, evars, avars, tvars, mvars, kvars, hvars>>

\* static const uint16_t reasons[]
reasons == <<7, 6, 2, 4, 1>>

\* a sequence-control field built from the low byte of the counter only
DeauthSeqCtlLowByte(seq) == <<((seq % 16) * 16) % 256, (seq \div 16) % 16>>

\* frame[22], frame[23] for the counter value seq
DeauthSeqCtl(seq) == <<((seq % 16) * 16) % 256, (seq \div 16) % 256>>

\* a frame that keeps the broadcast destination of the template
DeauthFrameBroadcast(target_mac, ap_mac, seq) ==
  <<192, 0, 0, 0>> \o Rep(255, 6) \o ApMac(ap_mac) \o ApMac(ap_mac)
    \o DeauthSeqCtl(seq) \o <<reasons[(seq % Len(reasons)) + 1] % 256, 0>>

\* uint8_t frame[26] as the loop hands it to the driver when g_deauth_seq = seq
DeauthFrame(target_mac, ap_mac, seq) ==
  LET r_idx == seq % Len(reasons)
  IN <<192, 0, 0, 0>>
       \o (IF target_mac # 0 THEN StaMac(target_mac) ELSE Rep(255, 6))
       \o ApMac(ap_mac) \o ApMac(ap_mac)
       \o DeauthSeqCtl(seq)
       \o <<reasons[r_idx + 1] % 256, (reasons[r_idx + 1] \div 256) % 256>>

\* one iteration of the transmit loop: esp_wifi_80211_tx succeeds or fails
BurstTx(c) ==
  /\ ~aborted
  /\ ctx[c].pc = "b_tx"
  /\ ctx[c].i < ctx[c].count
  /\ tx_frame' = DeauthFrame(ctx[c].target, SPOOF_MAC, g_deauth_seq)
  /\ tx_count' = tx_count + 1
  /\ g_deauth_seq' = (g_deauth_seq + 1) % 65536
  /\ \E ok \in BOOLEAN :
       ctx' = [ctx EXCEPT ![c].i = @ + 1,
                          ![c].sent = IF ok THEN @ + 1 ELSE @]
  /\ UNCHANGED <<g_promiscuous_active, g_channel_hopping, g_hopper_running,
                 g_current_channel, g_hop_index, g_hopper_task, g_wifi_mutex,
                 drv, hopper, aborted, n_ops, n_faults, n_hops, stop_done,
                 evars, avars, mvars, kvars, hvars>>

\* "Restore state": stop, the original MAC; then wifi_sniffer_start(channel)
\* if the sniffer was active
BurstRestore(c) ==
  /\ ~aborted
  /\ ctx[c].pc = "b_tx"
  /\ ctx[c].i >= ctx[c].count
  /\ LET calls == BurstRestoreCalls(ctx[c].original_mac)
     IN \E f \in FaultChoices(calls) :
          /\ drv' = RunCalls(drv, calls, 1, f).drv
          /\ n_faults' = n_faults + (IF f = 0 THEN 0 ELSE 1)
          /\ ctx' = [ctx EXCEPT
                       ![c].pc = IF ctx[c].was_promisc THEN "ss_take" ELSE "b_ret",
                       ![c].ss_channel = ctx[c].channel,
                       ![c].fault = IF f = 0 THEN @ ELSE "burst_restore"]
  /\ UNCHANGED <<g_promiscuous_active, g_channel_hopping, g_hopper_running,
                 g_current_channel, g_hop_index, g_hopper_task, g_wifi_mutex,
                 g_deauth_seq, hopper, aborted, n_ops, n_hops, evars, avars, tvars, mvars, kvars, hvars>>

\* a resume that switches hopping on after every burst over a sniffing radio
BurstResumeAlways(c) ==
  /\ ~aborted
  /\ ctx[c].pc = "b_resume"
  /\ g_channel_hopping' = TRUE /\ CreateHopper
  /\ Goto(c, "b_ret")
  /\ UNCHANGED <<g_promiscuous_active, g_hopper_running, g_current_channel,
                 g_hop_index, g_wifi_mutex, g_deauth_seq, drv, aborted, n_ops,
                 n_faults, n_hops, evars, avars, tx_frame,
                 tx_count, mvars, kvars, hvars>>
  /\ stop_done' = (stop_done /\ ~g_channel_hopping')

\* if (was_hopping) { g_channel_hopping = true; xTaskCreate(...) }
BurstResume(c) ==
  /\ ~aborted
  /\ ctx[c].pc = "b_resume"
  /\ IF ctx[c].was_hopping
       THEN g_channel_hopping' = TRUE /\ CreateHopper
       ELSE UNCHANGED <<g_channel_hopping, hopper, g_hopper_task>>
  /\ Goto(c, "b_ret")
  /\ UNCHANGED <<g_promiscuous_active, g_hopper_running, g_current_channel,
                 g_hop_index, g_wifi_mutex, g_deauth_seq, drv, aborted, n_ops,
                 n_faults, n_hops, evars, avars, tx_frame,
                 tx_count, mvars, kvars, hvars>>
  /\ stop_done' = (stop_done /\ ~g_channel_hopping')

\* a return that reports the attempts made instead of the frames sent
BurstReturnAttempts(c) ==
  /\ ~aborted
  /\ ctx[c].pc = "b_ret"
  /\ LET ret == IF ctx[c].i > 0 THEN "ESP_OK" ELSE "ESP_FAIL"
     IN /\ Return(c, ret)
        /\ deauth_result' = [type |-> "deauth_result",
                             success |-> (ret = "ESP_OK"),
                             channel |-> ctx[c].arg]
  /\ UNCHANGED <<g_promiscuous_active, g_channel_hopping, g_hopper_running,
                 g_current_channel, g_hop_index, g_hopper_task, g_wifi_mutex,
                 g_deauth_seq, drv, hopper, aborted, n_ops, n_faults, n_hops,
                 evars, avars, tvars, g_recon_mode, mgmt_out, n_mgmt_out,
                 kvars, hvars>>

\* return (sent > 0) ? ESP_OK : ESP_FAIL, and cmd_deauth reporting the result
BurstReturn(c) ==
  /\ ~aborted
  /\ ctx[c].pc = "b_ret"
  /\ LET ret == IF ctx[c].sent > 0 THEN "ESP_OK" ELSE "ESP_FAIL"
     IN /\ Return(c, ret)
        /\ deauth_result' = [type |-> "deauth_result",
                             success |-> (ret = "ESP_OK"),
                             channel |-> ctx[c].arg]
  /\ UNCHANGED <<g_promiscuous_active, g_channel_hopping, g_hopper_running,
                 g_current_channel, g_hop_index, g_hopper_task, g_wifi_mutex,
                 g_deauth_seq, drv, hopper, aborted, n_ops, n_faults, n_hops,
                 evars, avars, tvars, g_recon_mode, mgmt_out, n_mgmt_out,
                 kvars, hvars>>

NextRadio ==
  \/ \E c \in Ctx, channel \in Channels : CallSnifferStart(c, channel)
  \/ \E c \in Ctx : CallSnifferStop(c)
  \/ \E c \in Ctx : CallScanStart(c)
  \/ \E c \in Ctx, enable \in BOOLEAN : wifi_set_channel_hopping(c, enable)
  \/ \E c \in Ctx, channel \in Channels : wifi_set_channel(c, channel)
  \/ \E c \in Ctx, channel \in Channels, count \in 0..MaxCount :
       CallDeauthBurst(c, 0, channel, CMD_DEAUTH_REASON, count)
  \/ \E c \in Ctx : TakeMutex(c)
  \/ \E c \in Ctx : SnifferStartWait(c)
  \/ \E c \in Ctx : SnifferStartCfg1(c)
  \/ \E c \in Ctx : SnifferStartCfg2(c)
  \/ \E c \in Ctx : SnifferStopWait(c)
  \/ \E c \in Ctx : SnifferStopOff(c)
  \/ \E c \in Ctx : ScanCfg(c)
  \/ \E c \in Ctx : ScanRun(c)
  \/ \E c \in Ctx : BurstWait(c)
  \/ \E c \in Ctx : BurstSetup(c)
  \/ \E c \in Ctx : BurstTx(c)
  \/ \E c \in Ctx : BurstRestore(c)
  \/ \E c \in Ctx : BurstResume(c)
  \/ \E c \in Ctx : BurstReturn(c)
  \/ \E t \in 1..MaxHoppers : HopperStart(t)
  \/ \E t \in 1..MaxHoppers : HopperCheck(t)
  \/ \E t \in 1..MaxHoppers : HopperHop(t)

InitRadio == EapolState0 /\ AddrState0 /\ RadioState0

SpecRadio == InitRadio /\ [][NextRadio]_vars

InitEapol == EapolState0 /\ AddrState0 /\ RadioState0

SpecEapol == InitEapol /\ [][NextEapol]_vars

(***************************************************************************)
(* Claims on the EAPOL state machine (checked under SpecEapol)             *)
(***************************************************************************)
ValidFor(cache, p) ==
  {i \in Slots : cache[i].valid /\ cache[i].bssid = p.bssid /\ cache[i].sta = p.sta}

\* this step is the receive callback handling a Message-2
StepM2 == g_pkt_count' = g_pkt_count + 1 /\ last_op'.kind = "m2"

\* C1: a Message-1 for (B,S) and then, within the cache timeout, a Message-2
\* for (B,S): exactly one handshake is emitted (callback once, completed_count
\* plus one) and no valid cache entry for (B,S) remains.
C1_M1ThenM2CompletesAndConsumes ==
  [][(/\ last_op.kind = "m1"
      /\ StepM2
      /\ last_op'.pair = last_op.pair
      /\ now - last_op.at <= CACHE_TIMEOUT_MS)
     => (/\ hs_emitted' = hs_emitted + 1
         /\ g_complete_count' = g_complete_count + 1
         /\ ValidFor(g_handshake_cache', last_op.pair) = {})]_vars

\* C2: the cache never holds two valid entries for the same (bssid, station).
C2_AtMostOneValidEntryPerPair ==
  \A i \in Slots, j \in Slots :
    (/\ i # j
     /\ g_handshake_cache[i].valid
     /\ g_handshake_cache[j].valid)
    => ~(/\ g_handshake_cache[i].bssid = g_handshake_cache[j].bssid
         /\ g_handshake_cache[i].sta = g_handshake_cache[j].sta)

\* C3: once a handshake was emitted for (B,S), a further Message-2 for (B,S)
\* emits nothing unless a Message-1 for (B,S) arrived after that emission.
C3_NoCompletionOnReplay ==
  [][(StepM2 /\ last_op'.pair \in done_pairs)
     => hs_emitted' = hs_emitted]_vars

\* C4: a Message-2 for a pair with no cached Message-1 completes nothing: no
\* callback, completed_count and the cache unchanged, only message2_count
\* moves.
C4_M2WithoutM1YieldsNothing ==
  [][(StepM2 /\ ValidFor(g_handshake_cache, last_op'.pair) = {})
     => (/\ hs_emitted' = hs_emitted
         /\ last_hs' = last_hs
         /\ g_complete_count' = g_complete_count
         /\ g_handshake_cache' = g_handshake_cache
         /\ g_m1_count' = g_m1_count
         /\ g_m2_count' = g_m2_count + 1)]_vars

\* a Message-2 was dropped for want of its pair while the cache held a
\* Message-1 of the same access point for another station
C4_Witness ==
  /\ last_op.kind = "m2"
  /\ ~last_op.hit
  /\ g_m2_count = 1
  /\ g_complete_count = 0
  /\ \E i \in Slots :
       /\ g_handshake_cache[i].valid
       /\ g_handshake_cache[i].bssid = last_op.pair.bssid
       /\ g_handshake_cache[i].sta # last_op.pair.sta

\* C5: a Message-2 arriving more than the cache timeout after the cached
\* Message-1 of its pair was last seen yields no handshake.
C5_LateM2IsDropped ==
  [][(/\ StepM2
      /\ \A i \in ValidFor(g_handshake_cache, last_op'.pair) :
            now - g_handshake_cache[i].last_seen > CACHE_TIMEOUT_MS)
     => hs_emitted' = hs_emitted]_vars

\* C14: an emitted handshake carries the ANonce of the cached Message-1 and
\* the SNonce, the MIC and the replay counter of the Message-2 frame that
\* completed it (frame number n on the air carries Nonce(n), MicOf(n) and
\* ReplayCtr(n)); the replay counter is the Message-2's also when the cached
\* Message-1 carried another.
C14_HandshakeCarriesMessage2Fields ==
  [][(StepM2 /\ hs_emitted' = hs_emitted + 1)
     => (/\ \E i \in ValidFor(g_handshake_cache, last_op'.pair) :
               last_hs'.anonce = g_handshake_cache[i].anonce
         /\ last_hs'.snonce = Nonce(last_op'.n)
         /\ last_hs'.mic = MicOf(last_op'.n)
         /\ last_hs'.replay_counter = ReplayCtr(last_op'.n))]_vars

(***************************************************************************)
(* The address extractor on synthetic headers with distinct addresses      *)
(***************************************************************************)
TestMacs == {ApMac(1), ApMac(2), StaMac(1), StaMac(2)}
SeqCtls == {<<0, 0>>, <<16, 0>>, <<240, 255>>}

\* FC, duration, Addr1..Addr3, sequence control, Addr4
SyntheticHeaders ==
  {<<8, fc1, 0, 0>> \o a1 \o a2 \o a3 \o sc \o a4 :
     fc1 \in 0..3, sc \in SeqCtls,
     a1 \in TestMacs, a2 \in TestMacs, a3 \in TestMacs, a4 \in TestMacs}

Distinct4(f) ==
  Cardinality({Bytes(f, 4, 6), Bytes(f, 10, 6), Bytes(f, 16, 6), Bytes(f, 24, 6)}) = 4

AddrTestState0 ==
  /\ ax_frame \in {f \in SyntheticHeaders : Distinct4(f)}
  /\ ax_out = <<>>

\* the caller dereferences the three pointers
AxExtract ==
  /\ ax_out = <<>>
  /\ LET a == extract_data_frame_addrs(At(ax_frame, 1))
     IN ax_out' = [bssid |-> Bytes(ax_frame, a.bssid, 6),
                   sta |-> Bytes(ax_frame, a.sta, 6),
                   da |-> Bytes(ax_frame, a.da, 6)]
  /\ UNCHANGED <<ax_frame, evars, rvars, tvars, mvars, kvars, hvars>>

AxReset ==
  /\ ax_out # <<>>
  /\ ax_out' = <<>>
  /\ UNCHANGED <<ax_frame, evars, rvars, tvars, mvars, kvars, hvars>>

NextAddr == AxExtract \/ AxReset

InitAddr == EapolState0 /\ AddrTestState0 /\ RadioState0

SpecAddr == InitAddr /\ [][NextAddr]_vars

\* the table of the specification: (ToDS, FromDS) -> (BSSID, station, DA)
Addr1(f) == Bytes(f, 4, 6)
Addr2(f) == Bytes(f, 10, 6)
Addr3(f) == Bytes(f, 16, 6)
Addr4(f) == Bytes(f, 24, 6)

TableTriple(f) ==
  LET to_ds == At(f, 1) % 2
      from_ds == (At(f, 1) \div 2) % 2
  IN IF to_ds = 0 /\ from_ds = 0
       THEN [bssid |-> Addr3(f), sta |-> Addr2(f), da |-> Addr1(f)]
     ELSE IF to_ds = 0 /\ from_ds = 1
       THEN [bssid |-> Addr2(f), sta |-> Addr1(f), da |-> Addr1(f)]
     ELSE IF to_ds = 1 /\ from_ds = 0
       THEN [bssid |-> Addr1(f), sta |-> Addr2(f), da |-> Addr3(f)]
     ELSE [bssid |-> Addr2(f), sta |-> Addr4(f), da |-> Addr3(f)]

\* C7: for each of the four (ToDS, FromDS) combinations the extractor returns
\* the triple of the table: (0,0) -> (Addr3, Addr2, Addr1); (0,1) -> (Addr2,
\* Addr1, Addr1); (1,0) -> (Addr1, Addr2, Addr3); (1,1) -> (Addr2, Addr4, Addr3).
C7_ExtractorMatchesTable ==
  ax_out # <<>> => ax_out = TableTriple(ax_frame)

(***************************************************************************)
(* Claims on the radio-mode operations (checked under SpecRadio)           *)
(***************************************************************************)
\* C6: a burst called while sniffing ends with promiscuous capture active and
\* the radio tuned to the burst's channel, also when hopping was enabled
\* before the burst. Stated for the bursts that no other context overlaps
\* and during which no driver call fails, so that nothing but the burst's
\* own steps decides it.
C6_BurstEndsSniffingOnBurstChannel ==
  \A c \in Ctx :
    (/\ ctx[c].pc = "b_ret"
     /\ ctx[c].was_promisc
     /\ ctx[c].alone
     /\ n_faults = 0)
    => (/\ g_promiscuous_active
        /\ drv.promisc
        /\ g_current_channel = ctx[c].channel
        /\ drv.channel = ctx[c].channel)

\* context c has made some of the driver calls of a mode transition and has
\* more of them to make
InTransition(c) ==
  \/ ctx[c].pc \in {"ss_cfg2", "sc_run", "b_tx"}
  \/ ctx[c].op = "deauth_burst" /\ ctx[c].pc \in {"ss_take", "ss_wait", "ss_cfg1"}

\* C8: at most one of scan start, sniffer start/stop and deauth burst is
\* reconfiguring the driver at any moment.
C8_OneTransitionAtATime ==
  \A c1 \in Ctx, c2 \in Ctx :
    c1 # c2 => ~(InTransition(c1) /\ InTransition(c2))

\* C9: a driver call failing in the burst's set-up phase: no frame is
\* transmitted, the pre-burst mode and the original MAC are restored and the
\* burst reports failure.
C9_BurstSetupFailureRestores ==
  \A c \in Ctx :
    (ctx[c].op = "deauth_burst" /\ ctx[c].fault = "burst_setup")
    => (/\ ~aborted
        /\ ctx[c].i = 0
        /\ ctx[c].pc = "idle"
             => (/\ ctx[c].ret = "ESP_FAIL"
                 /\ drv.mac = ctx[c].original_mac
                 /\ g_promiscuous_active = ctx[c].was_promisc
                 /\ drv.promisc = ctx[c].was_promisc))

\* C10: a driver call failing during wifi_sniffer_start or wifi_scan_start:
\* the process is not aborted, and the operation returns an error with the
\* radio off (not promiscuous, not hopping) and the radio mutex released.
C10_StartFailureRollsBackToOff ==
  \A c \in Ctx :
    (/\ ctx[c].op \in {"sniffer_start", "scan_start"}
     /\ ctx[c].fault \in {"sniffer_start", "scan_start"})
    => (/\ ~aborted
        /\ ctx[c].pc = "idle"
             => (/\ ctx[c].ret # "ESP_OK"
                 /\ g_wifi_mutex # c
                 /\ ~g_promiscuous_active
                 /\ ~drv.promisc
                 /\ ~g_channel_hopping))

\* C11: when wifi_send_deauth_burst returns, the interface MAC is the address
\* it had when the burst was called, whatever was sent (nothing, for a count
\* of 0 or when every transmit attempt fails). Stated for the runs in which
\* no driver call fails.
C11_BurstReturnsWithOriginalMac ==
  \A c \in Ctx :
    (ctx[c].pc = "b_ret" /\ n_faults = 0)
    => drv.mac = ctx[c].original_mac

(***************************************************************************)
(* The handshake cache at capacity (checked under SpecFill): a run of       *)
(* Message-1 frames, each from a station of its own                        *)
(***************************************************************************)
MaxFill == 18        \* frames of the run
MaxFillTicks == 2    \* clock advances of the run

\* two advances exceed the cache timeout, one does not
FillTickMs == TickMs + 1

FillMessage1 ==
  /\ g_pkt_count < MaxFill
  /\ rx_bad' = NoRx
  /\ UNCHANGED kvars
  /\ \E b \in Aps, ki \in KI_M1 :
       LET f == AirFrame(b, g_pkt_count + 1, ki, g_pkt_count + 1, g_pkt_count + 1)
       IN promisc_rx_cb(f, Len(f))

FillTick ==
  /\ now < MaxFillTicks * FillTickMs
  /\ now' = now + FillTickMs
  /\ UNCHANGED <<g_handshake_cache, g_m1_count, g_m2_count, g_complete_count,
                 g_pkt_count, hs_emitted, last_hs, last_op, done_pairs,
                 n_clears, rx_bad, avars, rvars, tvars, mvars, kvars, hvars>>

NextFill ==
  \/ FillMessage1
  \/ FillTick

InitFill == EapolState0 /\ AddrState0 /\ RadioState0

SpecFill == InitFill /\ [][NextFill]_vars

\* this step is the receive callback handling a Message-1
StepM1 == g_pkt_count' = g_pkt_count + 1 /\ last_op'.kind = "m1"

FreeSlots ==
  {i \in Slots : \/ ~g_handshake_cache[i].valid
                 \/ now - g_handshake_cache[i].last_seen > CACHE_TIMEOUT_MS}

\* C12: the cache never holds more than 16 valid entries; a Message-1 writes
\* exactly one slot, an invalid or expired one if there is any, and otherwise
\* (all 16 valid and unexpired) a slot with the smallest last_seen; the other
\* 15 entries are unchanged.
C12_Message1ReusesFreeElseEvictsOldest ==
  [][StepM1 =>
     LET written == {i \in Slots : g_handshake_cache'[i] # g_handshake_cache[i]}
     IN /\ Cardinality(written) = 1
        /\ \A i \in written :
             /\ g_handshake_cache'[i].valid
             /\ g_handshake_cache'[i].sta = last_op'.pair.sta
             /\ IF FreeSlots # {}
                  THEN i \in FreeSlots
                  ELSE \A j \in Slots : g_handshake_cache[i].last_seen
                                          <= g_handshake_cache[j].last_seen
        /\ Cardinality({i \in Slots : g_handshake_cache'[i].valid})
             <= HANDSHAKE_CACHE_SIZE]_vars

\* a Message-1 has found all 16 slots valid and unexpired and has evicted
\* the oldest entry, which was not the one in slot 0
C12_Witness ==
  /\ last_op.kind = "m1"
  /\ last_op.full
  /\ last_op.slot # 0
  /\ g_handshake_cache[last_op.slot].last_seen = now
  /\ g_handshake_cache[last_op.slot].sta = last_op.pair.sta
  /\ \A i \in Slots : g_handshake_cache[i].valid

(***************************************************************************)
(* Damaged frames (checked under SpecReject): a Message-1 or Message-2     *)
(* frame reaches the callback cut short or with one field rewritten        *)
(***************************************************************************)
SetAt(p, off, v) == [p EXCEPT ![off + 1] = v]

Defects == {"short", "llc", "type", "declared", "descriptor"}

\* the frame f (MAC header of h bytes) with defect d: what the callback gets
Damaged(f, h, d) ==
  CASE d = "short" ->
         [payload |-> SubSeq(f, 1, Len(f) - 1), len |-> Len(f) - 1]
    [] d = "llc" ->
         [payload |-> SetAt(f, h + 7, 0), len |-> Len(f)]
    [] d = "type" ->
         [payload |-> SetAt(f, h + 8 + 1, 0), len |-> Len(f)]
    [] d = "declared" ->
         [payload |-> SetAt(f, h + 8 + 3, EAPOL_KEY_MIN_LEN + 1), len |-> Len(f)]
    [] OTHER ->
         [payload |-> SetAt(f, h + 12, 1), len |-> Len(f)]

RxDamaged ==
  /\ g_pkt_count < MaxFrames
  /\ \E b \in Aps, s \in Stas, ki \in KI_M1 \cup KI_M2, d \in Defects :
       LET f == AirFrame(b, s, ki, g_pkt_count + 1, g_pkt_count + 1)
           r == Damaged(f, calc_80211_header_len(At(f, 0), At(f, 1)), d)
       IN /\ promisc_rx_cb(r.payload, r.len)
          /\ rx_bad' = r
          /\ UNCHANGED kvars

NextReject ==
  \/ RxMessage1
  \/ RxMessage2
  \/ RxDamaged

InitReject == EapolState0 /\ AddrState0 /\ RadioState0

SpecReject == InitReject /\ [][NextReject]_vars

\* the frame fails one of the validation steps the claim lists
FailsValidation(payload, len) ==
  LET h == calc_80211_header_len(At(payload, 0), At(payload, 1))
  IN \/ len < h + 8 + 4 + EAPOL_KEY_MIN_LEN
     \/ Bytes(payload, h, 8) # LLC_SNAP_EAPOL
     \/ At(payload, h + 9) # 3
     \/ h + 8 + 4 + At(payload, h + 10) * 256 + At(payload, h + 11) > len
     \/ At(payload, h + 12) \notin {2, 254}

SeqStarts == {0, 14, 254, 4094, 65534}
DeauthReasons == {CMD_DEAUTH_REASON, 3}
\* channel arguments: "%hhu" gives cmd_deauth any value of 0..255
DeauthChannels == {0, 200}

CmdDeauth ==
  \E target_mac \in {0} \cup Stas, reason \in DeauthReasons,
     count \in 0..MaxCount, channel \in DeauthChannels :
    CallDeauthBurst(1, target_mac, channel, reason, count)

NextDeauth ==
  \/ CmdDeauth
  \/ BurstWait(1)
  \/ BurstSetup(1)
  \/ BurstTx(1)
  \/ BurstRestore(1)
  \/ BurstReturn(1)

InitDeauth ==
  /\ EapolState0 /\ AddrState0 /\ RadioIdle
  /\ g_deauth_seq \in SeqStarts

SpecDeauth == InitDeauth /\ [][NextDeauth]_vars

\* the sequence number in the sequence-control field of a frame
SeqOf(f) == At(f, 22) \div 16 + At(f, 23) * 16

\* some context hands a frame to the driver in this step
StepTx == tx_count' = tx_count + 1

\* C15: the sequence number of each deauthentication frame is one more,
\* modulo 4096, than that of the frame sent before it, in the same burst or in
\* the burst before, whatever the value of the 16-bit counter
C15_SequenceNumberIncrements ==
  [][(StepTx /\ tx_count > 0)
     => SeqOf(tx_frame') = (SeqOf(tx_frame) + 1) % 4096]_vars

\* the first frame of a second burst has been sent, right after the 16-bit
\* counter wrapped to 0
C15_Witness ==
  /\ n_ops = 2
  /\ ctx[1].pc = "b_tx" /\ ctx[1].i = 1
  /\ tx_count >= 2
  /\ SeqOf(tx_frame) = 0
  /\ g_deauth_seq = 1


\* the reason-code field of a frame: bytes 24-25, little endian
ReasonOf(f) == At(f, 24) + At(f, 25) * 256

\* context c hands a frame to the driver in this step
StepTxBy(c) == StepTx /\ ctx[c].pc = "b_tx" /\ ctx'[c].i = ctx[c].i + 1

\* DA of a frame for target_mac (0: no target, the broadcast address)
DestinationFor(target_mac) ==
  IF target_mac # 0 THEN StaMac(target_mac) ELSE Rep(255, 6)

\* C16: a frame a burst builds for (target, ap, reason), read back with the
\* ToDS=0/FromDS=0 mapping of extract_data_frame_addrs and the reason field,
\* gives destination = target, BSSID = ap, station = ap and the reason code
\* the burst was given
C16_DeauthFrameRoundTrip ==
  [][\A c \in Ctx :
       StepTxBy(c)
         => LET f == tx_frame'
                a == extract_data_frame_addrs(At(f, 1))
            IN /\ At(f, 1) % 4 = 0
               /\ Bytes(f, a.da, 6) = DestinationFor(ctx[c].target)
               /\ Bytes(f, a.bssid, 6) = ApMac(SPOOF_MAC)
               /\ Bytes(f, a.sta, 6) = ApMac(SPOOF_MAC)
               /\ ReasonOf(f) = ctx[c].reason]_vars


\* C17: every frame a burst hands to the driver is 26 bytes long: frame
\* control 0xC0 0x00, duration 0, the target station or the broadcast address
\* when there is none, the access point twice, a sequence-control field with
\* fragment number 0, and a two-byte little-endian reason code
C17_DeauthFrameLayout ==
  [][\A c \in Ctx :
       StepTxBy(c)
         => LET f == tx_frame'
            IN /\ Len(f) = 26
               /\ Bytes(f, 0, 2) = <<192, 0>>
               /\ Bytes(f, 2, 2) = <<0, 0>>
               /\ Bytes(f, 4, 6) = DestinationFor(ctx[c].target)
               /\ Bytes(f, 10, 6) = ApMac(SPOOF_MAC)
               /\ Bytes(f, 16, 6) = ApMac(SPOOF_MAC)
               /\ At(f, 22) % 16 = 0
               /\ SeqOf(f) = g_deauth_seq % 4096
               /\ \E k \in DOMAIN reasons : ReasonOf(f) = reasons[k]]_vars

\* a burst aimed at a station has handed a frame to the driver
C17_Witness ==
  /\ ctx[1].pc = "b_tx" /\ ctx[1].i > 0
  /\ ctx[1].target # 0
  /\ Len(tx_frame) = 26
  /\ Bytes(tx_frame, 4, 6) = StaMac(ctx[1].target)


(***************************************************************************)
(* Stopping the hopper (checked under SpecRadio)                           *)
(***************************************************************************)
\* a hopper task changes the channel in this step
StepHop == n_hops' = n_hops + 1

\* C18: once a caller has finished stopping the hopper (wifi_sniffer_stop has
\* returned, wifi_sniffer_start or the burst has passed its wait), no hopper
\* task changes the channel until hopping is started again
C18_NoHopAfterStop == [][StepHop => ~stop_done]_vars


\* C19: when wifi_scan_start has configured Station mode, with no other
\* caller at work and no driver call failing, channel hopping is disabled
\* (hopping is enabled only while the radio is sniffing)
C19_ScanDisablesHopping ==
  \A c \in Ctx :
    (/\ ctx[c].op = "scan_start"
     /\ ctx[c].pc = "sc_run"
     /\ ctx[c].alone
     /\ n_faults = 0)
    => (/\ drv.mode = "STA"
        /\ ~g_channel_hopping)


\* context c is waiting for the hopper task to stop
InHopperWait(c) == ctx[c].pc \in {"ss_wait", "st_wait", "b_wait"}

\* context c leaves its wait
LeaveHopperWait(c) ==
  SnifferStartWait(c) \/ SnifferStopWait(c) \/ BurstWait(c)

\* C20: every wait for the hopper task to stop has a timeout: a caller in
\* such a wait can go on whatever the hopper task does, so the operation
\* ends and gives the mutex back even when the hopper never reports its exit
C20_HopperWaitsAreBounded ==
  \A c \in Ctx : (InHopperWait(c) /\ ~aborted) => ENABLED LeaveHopperWait(c)


(***************************************************************************)
(* One caller and the hopper tasks (checked under SpecHop): the serial     *)
(* command task issues its operations one after another, starting from the *)
(* state wifi_sniffer_start(0) leaves: sniffing on channel 1, hopping      *)
(* enabled, the hopper task created and not yet scheduled                  *)
(***************************************************************************)
HopChannels == {0, 6}

SniffingWithHopping ==
  /\ g_promiscuous_active = TRUE
  /\ g_channel_hopping = TRUE
  /\ g_hopper_running = FALSE
  /\ g_current_channel = 1
  /\ g_hop_index = 0
  /\ g_hopper_task = 1
  /\ g_wifi_mutex = 0
  /\ g_deauth_seq = 0
  /\ drv = [DrvInit EXCEPT !.mode = "AP", !.started = TRUE, !.promisc = TRUE]
  /\ hopper = [t \in 1..MaxHoppers |-> IF t = 1 THEN "start" ELSE "none"]
  /\ ctx = [c \in Ctx |-> IdleCtx]
  /\ aborted = FALSE
  /\ n_ops = 0
  /\ n_faults = 0
  /\ n_hops = 0
  /\ tx_frame = <<>>
  /\ tx_count = 0
  /\ stop_done = FALSE

InitHop == EapolState0 /\ AddrState0 /\ SniffingWithHopping

NextHop ==
  \/ \E channel \in HopChannels : CallSnifferStart(1, channel)
  \/ CallSnifferStop(1)
  \/ \E channel \in HopChannels : wifi_set_channel(1, channel)
  \/ \E channel \in HopChannels, count \in 0..MaxCount :
       CallDeauthBurst(1, 0, channel, CMD_DEAUTH_REASON, count)
  \/ TakeMutex(1)
  \/ SnifferStartWait(1)
  \/ SnifferStartCfg1(1)
  \/ SnifferStartCfg2(1)
  \/ SnifferStopWait(1)
  \/ SnifferStopOff(1)
  \/ BurstWait(1)
  \/ BurstSetup(1)
  \/ BurstTx(1)
  \/ BurstRestore(1)
  \/ BurstResume(1)
  \/ BurstReturn(1)
  \/ \E t \in 1..MaxHoppers : HopperStart(t)
  \/ \E t \in 1..MaxHoppers : HopperCheck(t)
  \/ \E t \in 1..MaxHoppers : HopperHop(t)

SpecHop == InitHop /\ [][NextHop]_vars

\* C21: after wifi_sniffer_start(c) with c in 1..13 has returned, with no
\* driver call failing, hopping is disabled and the radio stays on channel c
\* until the next operation, whatever hopper tasks existed before the call
C21_FixedChannelSnifferStaysPut ==
  \A c \in Ctx :
    (/\ ctx[c].pc = "idle"
     /\ ctx[c].op = "sniffer_start"
     /\ ValidChannel(ctx[c].arg)
     /\ ctx[c].ret = "ESP_OK"
     /\ n_faults = 0)
    => (/\ ~g_channel_hopping
        /\ g_current_channel = ctx[c].arg
        /\ drv.channel = ctx[c].arg)


(***************************************************************************)
(* The statistics counters (checked under SpecEapol)                       *)
(***************************************************************************)
\* wifi_clear_handshake_cache is called in this step
StepClear == n_clears' = n_clears + 1

\* C22: wifi_clear_handshake_cache leaves every slot invalid and the four
\* counters (frames seen, Message-1, Message-2, completed) at zero; no other
\* step makes any of the four smaller
C22_ClearResetsAllCounters ==
  [][IF StepClear
       THEN /\ \A i \in Slots : ~g_handshake_cache'[i].valid
            /\ g_pkt_count' = 0
            /\ g_m1_count' = 0
            /\ g_m2_count' = 0
            /\ g_complete_count' = 0
       ELSE /\ g_pkt_count' >= g_pkt_count
            /\ g_m1_count' >= g_m1_count
            /\ g_m2_count' >= g_m2_count
            /\ g_complete_count' >= g_complete_count]_vars


(***************************************************************************)
(* Management frames (checked under SpecMgmt)                              *)
(***************************************************************************)
Ssids == {<<>>, <<65>>, <<66, 67>>}

\* an information element: id, length, value
Element(id, value) == <<id, Len(value)>> \o value

\* a probe request of station s for ssid
ProbeRequest(s, ssid) ==
  MacHeader(64, 0, Rep(255, 6), StaMac(s), Rep(255, 6), <<0, 0>>, <<>>)
    \o Element(0, ssid)

\* a beacon of access point b: timestamp, interval, capabilities, SSID
Beacon(b, ssid) ==
  MacHeader(128, 0, Rep(255, 6), ApMac(b), ApMac(b), <<0, 0>>, <<>>)
    \o Rep(0, 12) \o Element(0, ssid)

\* an authentication frame of station s
AuthFrame(s, b) ==
  MacHeader(176, 0, ApMac(b), StaMac(s), ApMac(b), <<0, 0>>, <<>>)
    \o <<0, 0, 1, 0, 0, 0>>

\* the SSID element at offset pos, as both branches read it: the SSID when
\* the element is there, of length 1..32 and inside the frame, else <<>>
SsidAt(payload, len, pos) ==
  IF pos + 2 <= len /\ At(payload, pos) = 0
    THEN LET ssid_len == At(payload, pos + 1)
         IN IF ssid_len > 0 /\ ssid_len <= 32 /\ pos + 2 + ssid_len <= len
              THEN Bytes(payload, pos + 2, ssid_len)
              ELSE <<>>
    ELSE <<>>

\* the event the management branch of promisc_rx_cb sends for the frame
MgmtEvent(payload, len) ==
  LET frame_type == (At(payload, 0) \div 4) % 4
      frame_subtype == (At(payload, 0) \div 16) % 16
  IN IF len < 24 THEN NoEvent
     ELSE IF frame_type = 0 /\ frame_subtype = 4
       THEN IF SsidAt(payload, len, 24) # <<>>
              THEN [type |-> "client_probe", mac |-> Bytes(payload, 10, 6),
                    ssid |-> SsidAt(payload, len, 24)]
              ELSE NoEvent
     ELSE IF frame_type = 0 /\ frame_subtype = 8 /\ g_recon_mode
       THEN IF len >= 36 /\ SsidAt(payload, len, 36) # <<>>
              THEN [type |-> "recon", bssid |-> Bytes(payload, 16, 6),
                    ssid |-> SsidAt(payload, len, 36)]
              ELSE NoEvent
     ELSE NoEvent

\* promisc_rx_cb for a frame of type WIFI_PKT_MGMT
promisc_rx_cb_mgmt(payload, len) ==
  LET event == MgmtEvent(payload, len)
  IN /\ g_pkt_count' = g_pkt_count + 1
     /\ IF event # NoEvent
          THEN mgmt_out' = event /\ n_mgmt_out' = n_mgmt_out + 1
          ELSE UNCHANGED <<mgmt_out, n_mgmt_out>>
     /\ UNCHANGED <<g_handshake_cache, g_m1_count, g_m2_count,
                    g_complete_count, now, hs_emitted, last_hs, last_op,
                    done_pairs, n_clears, rx_bad, g_recon_mode, deauth_result,
                    avars, rvars, tvars, kvars, hvars>>

RxProbeRequest ==
  /\ g_pkt_count < MaxFrames
  /\ \E s \in Stas, ssid \in Ssids :
       LET f == ProbeRequest(s, ssid) IN promisc_rx_cb_mgmt(f, Len(f))

\* a beacon, whole or cut inside its fixed fields
RxBeacon ==
  /\ g_pkt_count < MaxFrames
  /\ \E b \in Aps, ssid \in Ssids, cut \in BOOLEAN :
       LET f == Beacon(b, ssid)
       IN promisc_rx_cb_mgmt(f, IF cut THEN 30 ELSE Len(f))

RxAuth ==
  /\ g_pkt_count < MaxFrames
  /\ \E s \in Stas, b \in Aps :
       LET f == AuthFrame(s, b) IN promisc_rx_cb_mgmt(f, Len(f))

wifi_start_recon_mode ==
  /\ g_recon_mode' = TRUE
  /\ UNCHANGED <<mgmt_out, n_mgmt_out, deauth_result, evars, avars, rvars,
                 tvars, kvars, hvars>>

wifi_stop_recon_mode ==
  /\ g_recon_mode' = FALSE
  /\ UNCHANGED <<mgmt_out, n_mgmt_out, deauth_result, evars, avars, rvars,
                 tvars, kvars, hvars>>

NextMgmt ==
  \/ RxProbeRequest
  \/ RxBeacon
  \/ RxAuth
  \/ wifi_start_recon_mode
  \/ wifi_stop_recon_mode

InitMgmt == EapolState0 /\ AddrState0 /\ RadioState0

SpecMgmt == InitMgmt /\ [][NextMgmt]_vars

\* C23: a client_probe or recon event is sent only while recon mode is on
C23_MgmtEventsOnlyInReconMode ==
  [][n_mgmt_out' # n_mgmt_out => g_recon_mode]_vars


(***************************************************************************)
(* Channel arguments                                                       *)
(***************************************************************************)
\* C24: wifi_send_deauth_burst called with a channel outside 0..13 returns an
\* error at once: the hopper and the sniffer are not stopped, the MAC is not
\* changed, no frame is sent and the process is not aborted
C24_BurstRejectsInvalidChannel ==
  [][\A c \in Ctx :
       (/\ ctx[c].pc = "idle"
        /\ ctx'[c].op = "deauth_burst"
        /\ ctx'[c] # ctx[c]
        /\ (ctx'[c].arg < 0 \/ ctx'[c].arg > 13))
       => (/\ ctx'[c].pc = "idle"
           /\ ctx'[c].ret \notin {"ESP_OK", "none"}
           /\ UNCHANGED <<g_channel_hopping, g_promiscuous_active, drv,
                          hopper, tx_count, aborted>>)]_vars


\* Setting the channel by hand while sniffing (checked under SpecChannel)
SetChannels == {0, 6, 11, 14}

NextChannel ==
  \/ \E c \in Ctx, channel \in SetChannels : wifi_set_channel(c, channel)
  \/ \E c \in Ctx, enable \in BOOLEAN : wifi_set_channel_hopping(c, enable)
  \/ \E t \in 1..MaxHoppers : HopperStart(t)
  \/ \E t \in 1..MaxHoppers : HopperCheck(t)
  \/ \E t \in 1..MaxHoppers : HopperHop(t)

InitChannel == EapolState0 /\ AddrState0 /\ SniffingWithHopping

SpecChannel == InitChannel /\ [][NextChannel]_vars

\* context c calls wifi_set_channel in this step
StepSetChannel(c) ==
  /\ n_ops' = n_ops + 1
  /\ ctx[c].pc = "idle"
  /\ ctx'[c].op = "set_channel"
  /\ \A k \in Ctx \ {c} : ctx'[k].op = ctx[k].op /\ ctx'[k].pc = ctx[k].pc

\* C25: wifi_set_channel(c) with c outside 1..13 returns
\* ESP_ERR_INVALID_ARG, calls no driver function and leaves the current
\* channel alone; with c in 1..13 and no hopper task alive the current
\* channel is c when it returns
C25_SetChannelChecksItsArgument ==
  [][\A c \in Ctx :
       StepSetChannel(c)
         => IF ctx'[c].arg < 1 \/ ctx'[c].arg > 13
              THEN /\ ctx'[c].ret = "ESP_ERR_INVALID_ARG"
                   /\ UNCHANGED <<g_current_channel, drv, n_faults>>
              ELSE (\A t \in 1..MaxHoppers : hopper[t] = "none")
                     => g_current_channel' = ctx'[c].arg]_vars

\* hopping was switched off, the hopper task has ended, and channel 6 was set
C25_Witness ==
  /\ ctx[1].op = "set_channel"
  /\ ctx[1].arg = 6
  /\ ctx[1].ret = "ESP_OK"
  /\ n_ops = 2
  /\ \A t \in 1..MaxHoppers : hopper[t] = "none"
  /\ g_current_channel = 6
  /\ drv.channel = 6


(***************************************************************************)
(* The result of a burst (checked under SpecDeauth)                        *)
(***************************************************************************)
\* the burst of context c returns in this step
StepBurstReturn(c) == ctx[c].pc = "b_ret" /\ ctx'[c].pc = "idle"

\* C26: the burst returns ESP_OK exactly when one of its transmit attempts
\* succeeded, and the deauth_result event reports that outcome
C26_BurstResultIsOneFrameSent ==
  [][\A c \in Ctx :
       StepBurstReturn(c)
         => (/\ ctx[c].sent <= ctx[c].i
             /\ ctx[c].i = (IF ctx[c].count > 0 THEN ctx[c].count ELSE 0)
             /\ (ctx'[c].ret = "ESP_OK") = (ctx[c].sent > 0)
             /\ ctx'[c].ret \in {"ESP_OK", "ESP_FAIL"}
             /\ deauth_result'.type = "deauth_result"
             /\ deauth_result'.success = (ctx[c].sent > 0))]_vars

\* a burst of at least one attempt, all failing, has returned failure
C26_Witness ==
  /\ ctx[1].pc = "idle" /\ ctx[1].op = "deauth_burst"
  /\ ctx[1].count > 0 /\ ctx[1].i = ctx[1].count /\ ctx[1].sent = 0
  /\ ctx[1].ret = "ESP_FAIL"
  /\ deauth_result = [type |-> "deauth_result", success |-> FALSE,
                      channel |-> 0]


(***************************************************************************)
(* The burst and the hopper task (checked under SpecHop)                   *)
(***************************************************************************)
\* the burst of context c reconfigures the radio in this step
StepBurstSetup(c) == ctx[c].pc = "b_setup" /\ ctx'[c].pc # "b_setup"

\* C27: a burst called with channel 0 works on the channel the radio was
\* tuned to last before the burst reconfigures it, also when a hopper task
\* is running at the time of the call
C27_BurstUsesCurrentChannel ==
  [][\A c \in Ctx :
       (StepBurstSetup(c) /\ ctx[c].arg = 0 /\ n_faults' = 0)
         => (/\ ctx[c].channel = drv.channel
             /\ drv'.channel = drv.channel)]_vars


(***************************************************************************)
(* The burst among other operations (checked under SpecRadio)              *)
(***************************************************************************)
\* C28: a burst that has started its transmit loop makes each of its count
\* attempts: whatever other operations do meanwhile, the next attempt can be
\* made, and the loop is left only after the last one
C28_BurstRunsToCompletion ==
  \A c \in Ctx :
    /\ (ctx[c].pc = "b_tx" /\ ctx[c].i < ctx[c].count) => ENABLED BurstTx(c)
    /\ (ctx[c].op = "deauth_burst" /\ ctx[c].pc \in {"ss_take", "b_ret"})
         => ctx[c].i = ctx[c].count


(***************************************************************************)
(* Requests for the mode the radio is in (checked under SpecHop)           *)
(***************************************************************************)
\* context c is inside wifi_sniffer_start(0), called as the first operation
\* after wifi_sniffer_start(0): the radio is already sniffing with hopping
SnifferRestart(c) ==
  /\ n_ops = 1
  /\ ctx[c].op = "sniffer_start" /\ ctx[c].arg = 0
  /\ ctx[c].pc # "idle"

\* C29: wifi_sniffer_start called with the channel argument the radio is
\* already sniffing with is a no-op: none of its steps touches the driver
\* or the radio state
C29_SameModeRequestIsNoOp ==
  [][\A c \in Ctx :
       (SnifferRestart(c) /\ ctx'[c] # ctx[c])
         => UNCHANGED <<drv, g_promiscuous_active, g_channel_hopping,
                        g_current_channel, g_hopper_task, hopper>>]_vars


(***************************************************************************)
(* Hopping across a burst (checked under SpecHop)                          *)
(***************************************************************************)
\* context c is inside wifi_send_deauth_burst
InBurst(c) == ctx[c].op = "deauth_burst" /\ ctx[c].pc # "idle"

\* a step that switches hopping on or creates a hopper task
StepEnableHopping ==
  \/ (~g_channel_hopping /\ g_channel_hopping')
  \/ \E t \in DOMAIN hopper : hopper[t] = "none" /\ hopper'[t] = "start"

\* C30: with the operations called one after another, a burst switches
\* hopping on and creates the hopper only if hopping was enabled when it was
\* called, and then only once promiscuous capture is back; a burst called
\* with hopping off returns with hopping off
C30_BurstResumesHoppingLast ==
  [][\A c \in Ctx :
       /\ (InBurst(c) /\ ctx'[c] # ctx[c] /\ StepEnableHopping)
            => /\ ctx[c].was_hopping
               /\ g_promiscuous_active /\ drv.promisc /\ drv.started
               /\ g_channel_hopping' /\ hopper' # hopper
       /\ (StepBurstReturn(c) /\ ~ctx[c].was_hopping) => ~g_channel_hopping']_vars

\* a burst called with hopping enabled has resumed capture and hopping
C30_Witness ==
  \E c \in Ctx :
    /\ InBurst(c) /\ ctx[c].pc = "b_ret" /\ ctx[c].was_hopping
    /\ g_channel_hopping /\ g_promiscuous_active /\ drv.promisc
    /\ \E t \in DOMAIN hopper : hopper[t] = "start"


(***************************************************************************)
(* Classification by key-info bits (checked under SpecClassify): valid     *)
(* EAPOL-Key frames with every combination of the ack, mic and secure bits *)
(***************************************************************************)
\* key descriptor version 2, pairwise key; ack = 128, mic = 256, secure = 512
KeyInfos == {10 + 128 * a + 256 * m + 512 * s : a \in 0..1, m \in 0..1, s \in 0..1}

RxKey ==
  /\ g_pkt_count < MaxFrames
  /\ rx_bad' = NoRx
  /\ \E b \in Aps, s \in Stas, ki \in KeyInfos :
       LET f == AirFrame(b, s, ki, g_pkt_count + 1, g_pkt_count + 1)
       IN /\ promisc_rx_cb(f, Len(f))
          /\ rx_in' = [payload |-> f, len |-> Len(f)]
          /\ UNCHANGED <<g_sniffer_cb, g_cache_mutex, cb, clr, fwd_out, n_fwd,
                         n_eapol>>

NextClassify == RxKey

InitClassify == EapolState0 /\ AddrState0 /\ RadioState0

SpecClassify == InitClassify /\ [][NextClassify]_vars

\* the callback receives a frame in this step
StepRx == g_pkt_count' = g_pkt_count + 1 /\ rx_in' # NoRx

\* the key-info field of the frame received, read from its bytes
KeyInfoOf(r) ==
  LET h == calc_80211_header_len(At(r.payload, 0), At(r.payload, 1))
  IN At(r.payload, h + 13) * 256 + At(r.payload, h + 14)

\* the classes as the claim words them
AckMicOnly(ki) == BitSet(ki, 128) /\ ~BitSet(ki, 256)
MicNoAckNoSecure(ki) == BitSet(ki, 256) /\ ~BitSet(ki, 128) /\ ~BitSet(ki, 512)

\* C31 as worded: a valid EAPOL-Key frame that is neither Message-1 (ack=1,
\* mic=0) nor Message-2 (mic=1, ack=0, secure=0) changes no cache entry and
\* no statistics counter, frames_seen included, and emits nothing
C31_OtherKeyFrameChangesNoCounter ==
  [][(/\ StepRx
      /\ ~AckMicOnly(KeyInfoOf(rx_in'))
      /\ ~MicNoAckNoSecure(KeyInfoOf(rx_in')))
     => (/\ g_handshake_cache' = g_handshake_cache
         /\ g_pkt_count' = g_pkt_count
         /\ g_m1_count' = g_m1_count
         /\ g_m2_count' = g_m2_count
         /\ g_complete_count' = g_complete_count
         /\ hs_emitted' = hs_emitted)]_vars

\* C31 amended: a valid EAPOL-Key frame that is neither Message-1 nor
\* Message-2 changes no cache entry and none of the message1, message2 and
\* completed counters and emits no handshake (frames_seen counts it, as it
\* counts every frame); a frame counted as Message-1 has ack=1, mic=0, one
\* counted as Message-2 has mic=1, ack=0, secure=0, and no frame is both
C31_OtherKeyFrameIsIgnored ==
  [][StepRx =>
       LET ki == KeyInfoOf(rx_in')
       IN /\ (~AckMicOnly(ki) /\ ~MicNoAckNoSecure(ki))
               => (/\ g_handshake_cache' = g_handshake_cache
                   /\ g_m1_count' = g_m1_count
                   /\ g_m2_count' = g_m2_count
                   /\ g_complete_count' = g_complete_count
                   /\ hs_emitted' = hs_emitted
                   /\ last_hs' = last_hs)
          /\ (g_m1_count' # g_m1_count) => AckMicOnly(ki)
          /\ (g_m2_count' # g_m2_count) => MicNoAckNoSecure(ki)
          /\ ~(g_m1_count' # g_m1_count /\ g_m2_count' # g_m2_count)]_vars

\* a Message-4 (mic=1, secure=1) has arrived for a pair whose Message-1 is
\* cached: the entry is still there and only frames_seen moved
C31_Witness ==
  /\ rx_in # NoRx
  /\ LET ki == KeyInfoOf(rx_in)
     IN BitSet(ki, 256) /\ BitSet(ki, 512) /\ ~BitSet(ki, 128)
  /\ ValidFor(g_handshake_cache, Pair(rx_in.payload)) # {}
  /\ g_pkt_count = 2
  /\ g_m1_count = 1
  /\ g_m2_count = 0
  /\ hs_emitted = 0


(***************************************************************************)
(* The receive callback step by step: promisc_rx_cb and process_eapol run  *)
(* in the WiFi task, wifi_clear_handshake_cache in the command task        *)
(***************************************************************************)
\* void wifi_set_sniffer_callback(wifi_sniffer_cb_t cb)
wifi_set_sniffer_callback(registered) ==
  /\ cb.pc = "idle"
  /\ g_sniffer_cb' = registered
  /\ UNCHANGED <<rx_in, g_cache_mutex, cb, clr, fwd_out, n_fwd, n_eapol,
                 evars, avars, rvars, tvars, mvars, hvars>>

\* the driver calls promisc_rx_cb(buf, type): the frame is counted
CbEnter(type, payload, len) ==
  /\ cb.pc = "idle"
  /\ g_pkt_count < MaxFrames
  /\ g_pkt_count' = g_pkt_count + 1
  /\ cb' = [CbIdle EXCEPT !.pc = "fwd", !.type = type, !.payload = payload,
                          !.len = len]
  /\ rx_in' = [payload |-> payload, len |-> len, type |-> type]
  /\ UNCHANGED <<g_handshake_cache, g_m1_count, g_m2_count, g_complete_count,
                 now, hs_emitted, last_hs, last_op, done_pairs, n_clears,
                 rx_bad, g_sniffer_cb, g_cache_mutex, clr, fwd_out, n_fwd,
                 n_eapol, avars, rvars, tvars, mvars, hvars>>

\* a forward placed after the length test: frames under 24 bytes are skipped
CbForwardLongOnly ==
  /\ cb.pc = "fwd"
  /\ IF g_sniffer_cb /\ cb.len >= 24
       THEN /\ fwd_out' = [payload |-> cb.payload, len |-> cb.len,
                           type |-> cb.type, count |-> g_pkt_count]
            /\ n_fwd' = n_fwd + 1
       ELSE UNCHANGED <<fwd_out, n_fwd>>
  /\ cb' = [cb EXCEPT !.pc = "classify"]
  /\ UNCHANGED <<rx_in, g_sniffer_cb, g_cache_mutex, clr, n_eapol,
                 evars, avars, rvars, tvars, mvars, hvars>>

\* if (g_sniffer_cb) g_sniffer_cb(buf, type)
CbForward ==
  /\ cb.pc = "fwd"
  /\ IF g_sniffer_cb
       THEN /\ fwd_out' = [payload |-> cb.payload, len |-> cb.len,
                           type |-> cb.type, count |-> g_pkt_count]
            /\ n_fwd' = n_fwd + 1
       ELSE UNCHANGED <<fwd_out, n_fwd>>
  /\ cb' = [cb EXCEPT !.pc = "classify"]
  /\ UNCHANGED <<rx_in, g_sniffer_cb, g_cache_mutex, clr, n_eapol,
                 evars, avars, rvars, tvars, mvars, hvars>>

\* the rest of promisc_rx_cb, and process_eapol up to the branch it takes
CbClassify ==
  /\ cb.pc = "classify"
  /\ LET payload == cb.payload
         len == cb.len
     IN IF len < 24
          THEN /\ cb' = [cb EXCEPT !.pc = "idle"]
               /\ UNCHANGED <<g_m1_count, g_m2_count, n_eapol, mgmt_out,
                              n_mgmt_out>>
        ELSE IF cb.type = "MGMT"
          THEN /\ cb' = [cb EXCEPT !.pc = "idle"]
               /\ IF MgmtEvent(payload, len) # NoEvent
                    THEN /\ mgmt_out' = MgmtEvent(payload, len)
                         /\ n_mgmt_out' = n_mgmt_out + 1
                    ELSE UNCHANGED <<mgmt_out, n_mgmt_out>>
               /\ UNCHANGED <<g_m1_count, g_m2_count, n_eapol>>
        ELSE IF (At(payload, 0) \div 4) % 4 # 2
                  \/ calc_80211_header_len(At(payload, 0), At(payload, 1)) > len
          THEN /\ cb' = [cb EXCEPT !.pc = "idle"]
               /\ UNCHANGED <<g_m1_count, g_m2_count, n_eapol, mgmt_out,
                              n_mgmt_out>>
        ELSE LET header_len == calc_80211_header_len(At(payload, 0),
                                                     At(payload, 1))
             IN /\ n_eapol' = n_eapol + 1
                /\ UNCHANGED <<mgmt_out, n_mgmt_out>>
                /\ IF ~EapolValid(payload, len, header_len)
                     THEN cb' = [cb EXCEPT !.pc = "idle"] /\ UNCHANGED <<g_m1_count, g_m2_count>>
                   ELSE IF IsMessage1(KeyInfo(payload, header_len))
                     THEN /\ g_m1_count' = g_m1_count + 1
                          /\ cb' = [cb EXCEPT !.pc = "m1_take"]
                          /\ UNCHANGED g_m2_count
                   ELSE IF IsMessage2(KeyInfo(payload, header_len))
                     THEN /\ g_m2_count' = g_m2_count + 1
                          /\ cb' = [cb EXCEPT !.pc = "m2_take"]
                          /\ UNCHANGED g_m1_count
                   ELSE cb' = [cb EXCEPT !.pc = "idle"] /\ UNCHANGED <<g_m1_count, g_m2_count>>
  /\ UNCHANGED <<g_handshake_cache, g_complete_count, g_pkt_count, now,
                 hs_emitted, last_hs, last_op, done_pairs, n_clears, rx_bad,
                 rx_in, g_sniffer_cb, g_cache_mutex, clr, fwd_out, n_fwd,
                 g_recon_mode, deauth_result, avars, rvars, tvars, hvars>>

\* a take that also waits for the radio mutex to be free
CbTakeBehindRadio ==
  /\ cb.pc \in {"m1_take", "m2_take"}
  /\ g_cache_mutex = "free"
  /\ g_wifi_mutex = 0
  /\ g_cache_mutex' = "rx"
  /\ cb' = [cb EXCEPT !.pc = IF cb.pc = "m1_take" THEN "m1_store" ELSE "m2_find",
                      !.takes = @ + 1]
  /\ UNCHANGED <<rx_in, g_sniffer_cb, clr, fwd_out, n_fwd, n_eapol,
                 evars, avars, rvars, tvars, mvars, hvars>>

\* xSemaphoreTake(g_cache_mutex, portMAX_DELAY) in either branch
CbTake ==
  /\ cb.pc \in {"m1_take", "m2_take"}
  /\ g_cache_mutex = "free"
  /\ g_cache_mutex' = "rx"
  /\ cb' = [cb EXCEPT !.pc = IF cb.pc = "m1_take" THEN "m1_store" ELSE "m2_find",
                      !.takes = @ + 1]
  /\ UNCHANGED <<rx_in, g_sniffer_cb, clr, fwd_out, n_fwd, n_eapol,
                 evars, avars, rvars, tvars, mvars, hvars>>

\* Message-1 branch under the mutex: the slot search and the write
CbM1Store ==
  /\ cb.pc = "m1_store"
  /\ LET header_len == calc_80211_header_len(At(cb.payload, 0), At(cb.payload, 1))
         slot == FindSlot(g_handshake_cache, now)
     IN g_handshake_cache' =
          [g_handshake_cache EXCEPT ![slot] = CacheM1(cb.payload, header_len, slot)]
  /\ cb' = [cb EXCEPT !.pc = "give_ret"]
  /\ UNCHANGED <<g_m1_count, g_m2_count, g_complete_count, g_pkt_count, now,
                 hs_emitted, last_hs, last_op, done_pairs, n_clears, rx_bad,
                 rx_in, g_sniffer_cb, g_cache_mutex, clr, fwd_out, n_fwd,
                 n_eapol, avars, rvars, tvars, mvars, hvars>>

\* Message-2 branch under the mutex: the lookup; on a match the counter, the
\* wifi_handshake_t and the invalidation
CbM2Find ==
  /\ cb.pc = "m2_find"
  /\ LET header_len == calc_80211_header_len(At(cb.payload, 0), At(cb.payload, 1))
         p == Pair(cb.payload)
         i == FindMatch(g_handshake_cache, p.bssid, p.sta)
     IN IF i # -1
          THEN /\ g_complete_count' = g_complete_count + 1
               /\ g_handshake_cache' = [g_handshake_cache EXCEPT ![i].valid = FALSE]
               /\ cb' = [cb EXCEPT !.pc = "give_emit", !.slot = i,
                                   !.hs = BuildHandshake(cb.payload, header_len,
                                                         g_handshake_cache[i])]
          ELSE /\ cb' = [cb EXCEPT !.pc = "give_ret"]
               /\ UNCHANGED <<g_complete_count, g_handshake_cache>>
  /\ UNCHANGED <<g_m1_count, g_m2_count, g_pkt_count, now,
                 hs_emitted, last_hs, last_op, done_pairs, n_clears, rx_bad,
                 rx_in, g_sniffer_cb, g_cache_mutex, clr, fwd_out, n_fwd,
                 n_eapol, avars, rvars, tvars, mvars, hvars>>

\* a release made only on the paths that emit nothing
CbGiveUnlessMatched ==
  /\ cb.pc \in {"give_ret", "give_emit"}
  /\ IF cb.pc = "give_emit"
       THEN /\ cb' = [cb EXCEPT !.pc = "emit"]
            /\ UNCHANGED g_cache_mutex
       ELSE /\ g_cache_mutex' = "free"
            /\ cb' = [cb EXCEPT !.pc = "idle", !.gives = @ + 1]
  /\ UNCHANGED <<rx_in, g_sniffer_cb, clr, fwd_out, n_fwd, n_eapol,
                 evars, avars, rvars, tvars, mvars, hvars>>

\* xSemaphoreGive(g_cache_mutex): lines 729-731, 786-788, 848-850
CbGive ==
  /\ cb.pc \in {"give_ret", "give_emit"}
  /\ g_cache_mutex' = "free"
  /\ cb' = [cb EXCEPT !.pc = IF cb.pc = "give_emit" THEN "emit" ELSE "idle",
                      !.gives = @ + 1]
  /\ UNCHANGED <<rx_in, g_sniffer_cb, clr, fwd_out, n_fwd, n_eapol,
                 evars, avars, rvars, tvars, mvars, hvars>>

\* g_handshake_cb(&hs) and the wifi_handshake JSON, then return
CbEmit ==
  /\ cb.pc = "emit"
  /\ hs_emitted' = hs_emitted + 1
  /\ last_hs' = cb.hs
  /\ cb' = [cb EXCEPT !.pc = "idle"]
  /\ UNCHANGED <<g_handshake_cache, g_m1_count, g_m2_count, g_complete_count,
                 g_pkt_count, now, last_op, done_pairs, n_clears, rx_bad,
                 rx_in, g_sniffer_cb, g_cache_mutex, clr, fwd_out, n_fwd,
                 n_eapol, avars, rvars, tvars, mvars, hvars>>

\* wifi_clear_handshake_cache: xSemaphoreTake
ClearTake ==
  /\ clr = "idle"
  /\ n_clears < MaxClears
  /\ g_cache_mutex = "free"
  /\ g_cache_mutex' = "clear"
  /\ clr' = "memset"
  /\ n_clears' = n_clears + 1
  /\ UNCHANGED <<g_handshake_cache, g_m1_count, g_m2_count, g_complete_count,
                 g_pkt_count, now, hs_emitted, last_hs, last_op, done_pairs,
                 rx_bad, rx_in, g_sniffer_cb, cb, fwd_out, n_fwd, n_eapol,
                 avars, rvars, tvars, mvars, hvars>>

\* memset(g_handshake_cache, 0, ...); xSemaphoreGive
ClearMemset ==
  /\ clr = "memset"
  /\ g_handshake_cache' = [i \in Slots |-> ZeroEntry]
  /\ g_cache_mutex' = "free"
  /\ clr' = "m1"
  /\ UNCHANGED <<g_m1_count, g_m2_count, g_complete_count,
                 g_pkt_count, now, hs_emitted, last_hs, last_op, done_pairs,
                 n_clears, rx_bad, rx_in, g_sniffer_cb, cb, fwd_out, n_fwd,
                 n_eapol, avars, rvars, tvars, mvars, hvars>>

\* atomic_store(&g_m1_count, 0); then g_m2_count; then g_complete_count
ClearStore ==
  /\ clr \in {"m1", "m2", "complete"}
  /\ g_m1_count' = IF clr = "m1" THEN 0 ELSE g_m1_count
  /\ g_m2_count' = IF clr = "m2" THEN 0 ELSE g_m2_count
  /\ g_complete_count' = IF clr = "complete" THEN 0 ELSE g_complete_count
  /\ clr' = CASE clr = "m1" -> "m2" [] clr = "m2" -> "complete" [] OTHER -> "idle"
  /\ UNCHANGED <<g_handshake_cache, g_pkt_count, now, hs_emitted, last_hs,
                 last_op, done_pairs, n_clears, rx_bad, rx_in, g_sniffer_cb,
                 g_cache_mutex, cb, fwd_out, n_fwd, n_eapol,
                 avars, rvars, tvars, mvars, hvars>>


(***************************************************************************)
(* The dispatcher (checked under SpecDispatch): frames of every kind reach *)
(* promisc_rx_cb one after another, a raw sniffer callback registered or   *)
(* not                                                                     *)
(***************************************************************************)
\* an ACK control frame padded to 24 bytes, and a QoS data frame with four
\* addresses (header of 32 bytes)
CtrlFrame(s) == <<212, 0, 0, 0>> \o StaMac(s) \o Rep(0, 14)
QosWdsFrame(b, s) ==
  MacHeader(136, 3, ApMac(b), StaMac(s), ApMac(b), <<0, 0>>, StaMac(s))

\* what the driver can hand to the callback as its n-th frame
DispatchPackets(n) ==
  LET m1 == AirFrame(1, 1, 138, n, n)
      m2 == AirFrame(1, 1, 266, n, n)
      probe == ProbeRequest(1, <<65>>)
      qos == QosWdsFrame(1, 1)
  IN {[type |-> "DATA", payload |-> m1, len |-> Len(m1)],
      [type |-> "DATA", payload |-> m2, len |-> Len(m2)],
      [type |-> "DATA", payload |-> SubSeq(m1, 1, 10), len |-> 10],
      [type |-> "DATA", payload |-> SubSeq(qos, 1, 26), len |-> 26],
      [type |-> "MGMT", payload |-> probe, len |-> Len(probe)],
      [type |-> "MGMT", payload |-> SubSeq(probe, 1, 16), len |-> 16],
      [type |-> "CTRL", payload |-> CtrlFrame(1), len |-> 24]}

RxAny ==
  \E pkt \in DispatchPackets(g_pkt_count + 1) :
    CbEnter(pkt.type, pkt.payload, pkt.len)

NextDispatch ==
  \/ \E registered \in BOOLEAN : wifi_set_sniffer_callback(registered)
  \/ RxAny
  \/ CbForward
  \/ CbClassify
  \/ CbTake
  \/ CbM1Store
  \/ CbM2Find
  \/ CbGive
  \/ CbEmit

InitDispatch == EapolState0 /\ AddrState0 /\ RadioState0

SpecDispatch == InitDispatch /\ [][NextDispatch]_vars

\* this step classifies the frame: it calls process_eapol, sends a
\* management event or counts a message
StepClassified ==
  \/ n_eapol' # n_eapol
  \/ n_mgmt_out' # n_mgmt_out
  \/ g_m1_count' # g_m1_count
  \/ g_m2_count' # g_m2_count

\* C32: for every frame the callback first counts it, then hands it
\* unchanged to the registered raw sniffer callback (frames under 24 bytes
\* too), and only then classifies it; process_eapol is called only for a
\* frame not delivered as a management frame, of type 2, whose header
\* length is within the captured length
C32_DispatcherOrder ==
  [][/\ (cb.pc = "idle" /\ cb'.pc # "idle")
          => (/\ g_pkt_count' = g_pkt_count + 1
              /\ cb'.pc = "fwd"
              /\ n_fwd' = n_fwd /\ ~StepClassified)
     /\ (cb.pc = "fwd" /\ cb'.pc # "fwd")
          => (/\ g_sniffer_cb
                   => (/\ n_fwd' = n_fwd + 1
                       /\ fwd_out'.payload = rx_in.payload
                       /\ fwd_out'.len = rx_in.len
                       /\ fwd_out'.type = rx_in.type)
              /\ ~g_sniffer_cb => n_fwd' = n_fwd
              /\ g_pkt_count' = g_pkt_count
              /\ ~StepClassified)
     /\ (n_fwd' # n_fwd) => cb.pc = "fwd"
     /\ StepClassified => cb.pc \notin {"idle", "fwd"}
     /\ (n_eapol' # n_eapol)
          => (/\ rx_in.type # "MGMT"
              /\ rx_in.len >= 24
              /\ (At(rx_in.payload, 0) \div 4) % 4 = 2
              /\ calc_80211_header_len(At(rx_in.payload, 0),
                                       At(rx_in.payload, 1)) <= rx_in.len)]_vars

\* a frame of 10 bytes was counted and forwarded, and the callback returned
\* without classifying it
C32_Witness ==
  /\ cb.pc = "idle"
  /\ rx_in # NoRx /\ rx_in.len < 24
  /\ n_fwd = 1
  /\ fwd_out.payload = rx_in.payload /\ fwd_out.len = 10
  /\ fwd_out.count = g_pkt_count
  /\ n_eapol = 0


(***************************************************************************)
(* The two mutexes (checked under SpecLock): Message-1 and Message-2       *)
(* frames arrive while the command task clears the cache and two contexts  *)
(* stop the sniffer                                                        *)
(***************************************************************************)
MaxLockFrames == 2   \* frames delivered to the callback

RxKeyFrame ==
  /\ g_pkt_count < MaxLockFrames
  /\ \E ki \in KI_M1 \cup KI_M2 :
       LET f == AirFrame(1, 1, ki, g_pkt_count + 1, g_pkt_count + 1)
       IN CbEnter("DATA", f, Len(f))

NextLock ==
  \/ RxKeyFrame
  \/ CbForward
  \/ CbClassify
  \/ CbTake
  \/ CbM1Store
  \/ CbM2Find
  \/ CbGive
  \/ CbEmit
  \/ ClearTake
  \/ ClearMemset
  \/ ClearStore
  \/ \E c \in Ctx : CallSnifferStop(c)
  \/ \E c \in Ctx : TakeMutex(c)
  \/ \E c \in Ctx : SnifferStopWait(c)
  \/ \E c \in Ctx : SnifferStopOff(c)

InitLock == EapolState0 /\ AddrState0 /\ RadioState0

SpecLock == InitLock /\ [][NextLock]_vars

\* the next statement of the running callback can execute
CbCanStep ==
  \/ ENABLED CbForward
  \/ ENABLED CbClassify
  \/ ENABLED CbTake
  \/ ENABLED CbM1Store
  \/ ENABLED CbM2Find
  \/ ENABLED CbGive
  \/ ENABLED CbEmit

\* C33: a running callback is held up only by the cache mutex
\* in the hands of wifi_clear_handshake_cache, never by the radio mutex; the
\* holder of the cache mutex, callback or clear, can always take its next
\* step, so it never waits for the radio mutex and the two cannot deadlock
C33_CallbackNeverWaitsForRadio ==
  /\ (cb.pc # "idle" /\ ~CbCanStep)
       => (cb.pc \in {"m1_take", "m2_take"} /\ g_cache_mutex = "clear")
  /\ (g_cache_mutex = "clear") => (clr = "memset" /\ ENABLED ClearMemset)
  /\ (g_cache_mutex = "rx")
       => (/\ cb.pc \in {"m1_store", "m2_find", "give_ret", "give_emit"}
           /\ CbCanStep)
  /\ \A c \in Ctx :
       (ctx[c].pc \in {"ss_take", "st_take", "sc_take"} /\ g_wifi_mutex # 0)
         => g_wifi_mutex \in Ctx \ {c}

\* a Message-2 was matched and its handshake emitted while a context held
\* the radio mutex and the other waited for it
C33_Witness ==
  /\ g_wifi_mutex = 1
  /\ ctx[2].pc = "st_take"
  /\ cb.pc = "emit"
  /\ cb.takes = 1 /\ cb.gives = 1
  /\ g_complete_count = 1


(***************************************************************************)
(* The hop cycle (checked under SpecCycle): the hopper task created by     *)
(* wifi_sniffer_start(0) runs with hopping left enabled                    *)
(***************************************************************************)
MaxCycleHops == 40   \* hops of the run, more than two cycles

\* a hop, with the channel handed to esp_wifi_set_channel kept in the log of
\* the last Len(hop_channels) hops
CycleHop(t) ==
  /\ HopperHopUpTo(t, MaxCycleHops)
  /\ hop_log' = LET l == Append(hop_log, g_current_channel')
                IN IF Len(l) > Len(hop_channels) THEN Tail(l) ELSE l

NextCycle ==
  \/ \E t \in 1..MaxHoppers : HopperStart(t)
  \/ \E t \in 1..MaxHoppers : HopperCheck(t)
  \/ \E t \in 1..MaxHoppers : CycleHop(t)

InitCycle == EapolState0 /\ AddrState0 /\ SniffingWithHopping

SpecCycle == InitCycle /\ [][NextCycle]_vars

\* how often channel ch occurs in the log
TimesIn(log, ch) == Cardinality({i \in 1..Len(log) : log[i] = ch})

\* C34: while hopping stays enabled every hop moves the index to the next
\* value modulo 19, within 0..18, and hands hop_channels[index], a channel in
\* 1..13, to the radio (which is on it unless the driver refused); any 19
\* hops in a row apply channels 1, 6 and 11 three times each and every other
\* channel of 1..13 once
C34_HopCycle ==
  [][StepHop =>
       /\ g_hop_index' = (g_hop_index + 1) % 19
       /\ g_hop_index' \in 0..18
       /\ g_current_channel' = hop_channels[g_hop_index' + 1]
       /\ g_current_channel' \in 1..13
       /\ hop_log'[Len(hop_log')] = g_current_channel'
       /\ (n_faults' = n_faults) => drv'.channel = g_current_channel'
       /\ (Len(hop_log') = 19) =>
            \A ch \in 1..13 :
              TimesIn(hop_log', ch) = IF ch \in {1, 6, 11} THEN 3 ELSE 1]_vars

\* two full cycles have been hopped and the index is back where it started
C34_Witness ==
  /\ n_hops = 38
  /\ g_hop_index = 0
  /\ g_channel_hopping
  /\ Len(hop_log) = 19
  /\ drv.channel = 1


(***************************************************************************)
(* The reason-code rotation (checked under SpecDeauth)                     *)
(***************************************************************************)
\* the position of a reason code in the cycle, 0 when it is not one of them
CyclePos(r) ==
  IF \E k \in 1..Len(reasons) : reasons[k] = r
    THEN CHOOSE k \in 1..Len(reasons) : reasons[k] = r
    ELSE 0

\* C35: every frame handed to the driver carries a reason code of the cycle
\* 7, 6, 2, 4, 1, and a frame carries the code that follows the code of the
\* frame before it, in the same burst or the burst before, for every value
\* of the 16-bit counter
C35_ReasonCodesRotate ==
  [][StepTx =>
       /\ CyclePos(ReasonOf(tx_frame')) # 0
       /\ (tx_count > 0) =>
            /\ CyclePos(ReasonOf(tx_frame'))
                 = (CyclePos(ReasonOf(tx_frame)) % Len(reasons)) + 1
            /\ ReasonOf(tx_frame') # ReasonOf(tx_frame)]_vars


(***************************************************************************)
(* The number of hopper tasks (checked under SpecHop)                      *)
(***************************************************************************)
\* the hopper tasks that exist: created and not yet deleted
LiveHoppers == {t \in 1..MaxHoppers : hopper[t] # "none"}

\* C36: at most one channel-hopper task exists at any time, whatever the
\* interleaving of the operations with the start-up and the exit of the
\* task (the claim derives from it that g_hopper_running is false only when
\* no task is alive)
C36_AtMostOneHopper == Cardinality(LiveHoppers) <= 1


(***************************************************************************)
(* The counters against each other (checked under SpecLock)                *)
(***************************************************************************)
\* C37: in every state, also while wifi_clear_handshake_cache runs beside
\* the receive callback, completed_count is at most message2_count and at
\* most message1_count
C37_CompletedAtMostM2AndM1 ==
  /\ g_complete_count <= g_m2_count
  /\ g_complete_count <= g_m1_count


(***************************************************************************)
(* The tracked channel (checked under SpecTrack): one caller starts the    *)
(* sniffer, sets the channel and sends bursts with channel arguments in    *)
(* and out of range, hopper tasks running beside it                        *)
(***************************************************************************)
\* channel arguments of a uint8_t: hop, the last valid one, the first
\* invalid one, the largest
TrackChannels == {0, 13, 14, 255}

NextTrack ==
  \/ \E channel \in TrackChannels : CallSnifferStart(1, channel)
  \/ \E channel \in TrackChannels : wifi_set_channel(1, channel)
  \/ \E channel \in TrackChannels :
       CallDeauthBurst(1, 0, channel, CMD_DEAUTH_REASON, 1)
  \/ TakeMutex(1)
  \/ SnifferStartWait(1)
  \/ SnifferStartCfg1(1)
  \/ SnifferStartCfg2(1)
  \/ BurstWait(1)
  \/ BurstSetup(1)
  \/ BurstTx(1)
  \/ BurstRestore(1)
  \/ BurstResume(1)
  \/ BurstReturn(1)
  \/ \E t \in 1..MaxHoppers : HopperStart(t)
  \/ \E t \in 1..MaxHoppers : HopperCheck(t)
  \/ \E t \in 1..MaxHoppers : HopperHop(t)

InitTrack == EapolState0 /\ AddrState0 /\ RadioState0

SpecTrack == InitTrack /\ [][NextTrack]_vars

\* uint8_t wifi_get_channel(void)
wifi_get_channel == g_current_channel

\* C38: the channel wifi_get_channel returns lies in 1..13 in every state,
\* after wifi_sniffer_start with any argument, hops, wifi_set_channel calls
\* and bursts
C38_TrackedChannelInRange == wifi_get_channel \in 1..13

\* wifi_sniffer_start(255) has returned ESP_OK and the tracked channel is 1
C38_Witness ==
  /\ ctx[1].pc = "idle"
  /\ ctx[1].op = "sniffer_start" /\ ctx[1].arg = 255
  /\ ctx[1].ret = "ESP_OK"
  /\ wifi_get_channel = 1
  /\ drv.channel = 1


(***************************************************************************)
(* The cache mutex inside process_eapol (checked under SpecLock)           *)
(***************************************************************************)
\* C39: when the callback has returned it has released the cache mutex as
\* often as it took it, once at most, on the Message-1 path and on the
\* Message-2 paths with and without a match; the handshake callback and the
\* wifi_handshake JSON run only with the matched entry invalid and the
\* mutex released
C39_MutexReleasedBeforeEmission ==
  /\ cb.gives <= cb.takes /\ cb.takes <= 1
  /\ (cb.pc = "idle") => (cb.takes = cb.gives /\ g_cache_mutex # "rx")
  /\ (cb.pc \in {"m1_store", "m2_find", "give_ret", "give_emit"})
       => (cb.takes = 1 /\ cb.gives = 0 /\ g_cache_mutex = "rx")
  /\ (cb.pc = "emit")
       => (/\ g_cache_mutex # "rx"
           /\ cb.takes = 1 /\ cb.gives = 1
           /\ ~g_handshake_cache[cb.slot].valid)

\* a Message-2 found its Message-1, the handshake went out and the callback
\* returned, one take and one give behind it
C39_Witness ==
  /\ cb.pc = "idle"
  /\ cb.slot # -1
  /\ hs_emitted = 1
  /\ last_hs = cb.hs
  /\ cb.takes = 1 /\ cb.gives = 1
  /\ g_cache_mutex = "free"

(***************************************************************************)
(* The frame bytes process_eapol reads (checked under SpecCapture)         *)
(***************************************************************************)
MaxCaptureFrames == 2   \* frames delivered under SpecCapture

\* the offsets of n bytes starting at C offset off
Span(off, n) == off..(off + n - 1)

\* the body length the EAPOL header of the frame declares
DeclaredBodyLen(payload, header_len) ==
  At(payload, header_len + 10) * 256 + At(payload, header_len + 11)

\* the frame offsets process_eapol reads, statement by statement; a memcmp or
\* memcpy counts with all the bytes it is given, and a Message-2 with the
\* reads of the path on which its Message-1 is found
EapolReads(payload, len, header_len) ==
  LET llc == header_len
      eapol_hdr == llc + 8
      eapol == eapol_hdr + 4
      a == extract_data_frame_addrs(At(payload, 1))
      key_info == KeyInfo(payload, header_len)
      frame_len == Min(4 + DeclaredBodyLen(payload, header_len),
                       MAX_EAPOL_FRAME_SIZE)
  IN IF len < header_len + 8 + 4 + EAPOL_KEY_MIN_LEN THEN {}
     ELSE Span(llc, 8) \cup
       (IF Bytes(payload, llc, 8) # LLC_SNAP_EAPOL THEN {}
        ELSE Span(eapol_hdr, 4) \cup
          (IF ~EapolValid(payload, len, header_len)
             THEN IF /\ At(payload, eapol_hdr + 1) = 3
                     /\ len >= eapol_hdr + 4 + DeclaredBodyLen(payload, header_len)
                     /\ DeclaredBodyLen(payload, header_len) >= EAPOL_KEY_MIN_LEN
                    THEN {eapol + EAPOL_KEY_DESC_TYPE_OFFSET}
                    ELSE {}
           ELSE {eapol + EAPOL_KEY_DESC_TYPE_OFFSET, eapol + EAPOL_KEY_INFO_OFFSET,
                 eapol + EAPOL_KEY_INFO_OFFSET + 1, 1}
             \cup
             (IF IsMessage1(key_info)
                THEN Span(a.bssid, 6) \cup Span(a.sta, 6)
                       \cup Span(eapol + EAPOL_KEY_NONCE_OFFSET, 32)
                       \cup Span(eapol + EAPOL_KEY_REPLAY_OFFSET, 8)
              ELSE IF IsMessage2(key_info)
                THEN Span(a.bssid, 6) \cup Span(a.sta, 6)
                       \cup Span(eapol + EAPOL_KEY_NONCE_OFFSET, 32)
                       \cup Span(eapol + EAPOL_KEY_MIC_OFFSET, 16)
                       \cup Span(eapol_hdr, frame_len)
              ELSE {})))

\* frame-control bytes <<fc0, fc1>> of the data frames on the air: FromDS and
\* ToDS data (header of 24 bytes), QoS data in an IBSS (26) and four-address
\* QoS data with the Order bit (36)
CaptureFc == {<<8, 2>>, <<8, 1>>, <<136, 0>>, <<136, 131>>}
\* declared body lengths: one short of the minimum, the minimum, the longest
\* that fits eapol_frame whole, and one more
CaptureBodyLens == {94, 95, 252, 253}

\* an EAPOL-Key frame of access point b and station s whose addresses sit
\* where extract_data_frame_addrs looks for them, declaring a body of bl
\* bytes, followed by enough bytes for every captured length
CaptureFrame(fc0, fc1, b, s, ki, n, bl) ==
  LET a1 == IF fc1 % 4 = 2 THEN StaMac(s) ELSE ApMac(b)
      a2 == IF fc1 % 4 = 2 THEN ApMac(b) ELSE StaMac(s)
      ht == IF BitSet(fc1, 128) THEN <<0, 0, 0, 0>> ELSE <<>>
  IN MacHeader(fc0, fc1, a1, a2, ApMac(b), <<0, 0>>, StaMac(s)) \o ht
       \o LLC_SNAP_EAPOL \o <<2, 3, bl \div 256, bl % 256>>
       \o KeyBody(2, ki, ReplayCtr(n), Nonce(n),
                  IF BitSet(ki, 128) THEN Rep(0, 16) ELSE MicOf(n))
       \o Rep(0, 256)

\* the captured lengths tried for a header of h bytes and a declared body
\* of bl bytes
CaptureLens(h, bl) ==
  {23, h - 1, h + 8 + 4 + EAPOL_KEY_MIN_LEN - 1, h + 8 + 4 + EAPOL_KEY_MIN_LEN,
   h + 8 + 4 + bl - 1, h + 8 + 4 + bl}

\* the callback receives the first len bytes of a frame
RxCaptured ==
  /\ g_pkt_count < MaxCaptureFrames
  /\ rx_bad' = NoRx
  /\ \E fc \in CaptureFc, ki \in KI_M1 \cup KI_M2, bl \in CaptureBodyLens :
       \E len \in CaptureLens(calc_80211_header_len(fc[1], fc[2]), bl) :
         LET f == SubSeq(CaptureFrame(fc[1], fc[2], 1, 1, ki, g_pkt_count + 1, bl),
                         1, len)
         IN /\ promisc_rx_cb(f, len)
            /\ rx_in' = [payload |-> f, len |-> len]
            /\ UNCHANGED <<g_sniffer_cb, g_cache_mutex, cb, clr, fwd_out, n_fwd,
                           n_eapol>>

NextCapture == RxCaptured

InitCapture == EapolState0 /\ AddrState0 /\ RadioState0

SpecCapture == InitCapture /\ [][NextCapture]_vars

\* C40: whatever the frame content, the header length and the captured
\* length, process_eapol and extract_data_frame_addrs read frame bytes at
\* offsets below len only, and the bytes copied into eapol_frame number
\* min(4 + declared body length, 256) and end inside the captured frame
C40_ReadsStayInsideFrame ==
  [][StepRx =>
       LET r == rx_in'
       IN /\ (r.len >= 24)
               => LET h == calc_80211_header_len(At(r.payload, 0),
                                                 At(r.payload, 1))
                  IN (h <= r.len)
                       => \A o \in EapolReads(r.payload, r.len, h) :
                            0 <= o /\ o < r.len
          /\ (hs_emitted' # hs_emitted)
               => LET h == calc_80211_header_len(At(r.payload, 0),
                                                 At(r.payload, 1))
                  IN /\ last_hs'.eapol_len
                          = Min(4 + DeclaredBodyLen(r.payload, h), 256)
                     /\ h + 8 + last_hs'.eapol_len <= r.len
                     /\ Span(h + 8, last_hs'.eapol_len)
                          \subseteq EapolReads(r.payload, r.len, h)]_vars

\* a QoS four-address Message-2 with the Order bit (header of 36 bytes)
\* declaring 253 body bytes, captured whole, completed a handshake: 256 of
\* its 257 EAPOL bytes were copied
C40_Witness ==
  /\ hs_emitted = 1
  /\ g_pkt_count = 2
  /\ rx_in # NoRx
  /\ At(rx_in.payload, 0) = 136 /\ At(rx_in.payload, 1) = 131
  /\ DeclaredBodyLen(rx_in.payload, 36) = 253
  /\ rx_in.len = 36 + 8 + 4 + 253
  /\ last_hs.eapol_len = 256

=============================================================================
